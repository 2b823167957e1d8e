# code_aster in TLA+

Models, checks and proofs for the parts of code_aster whose correctness is a
matter of state and order rather than of mechanics: the memory manager JEVEUX,
the catalogue of its names, the file behind it, the agreement between MPI ranks
when one of them fails, the logical units that Python and Fortran share, the
pickle file of the objects of a study, the launcher that chains command files
and restarts them, and the loops of the nonlinear operators, which cut their time
steps and try them again.

Source paths are relative to `src/`. Routine names are those of the Fortran;
an action or an operator has the name of the routine it models.

## 1. The system

code_aster is a finite element program driven by Python. A study is a Python
script of *commands*. A command checks its keywords (`code_aster/Supervis`),
then calls one Fortran operator (`execop`), or C++ objects (`bibcxx`) over the
same Fortran kernel. Everything a command leaves for the next one is in named
objects of the JEVEUX data base. The launcher `run_aster` starts the study,
alone or under `mpirun`, saves the bases and composes the exit statuses.

    run_aster -> Python script -> command -> execop -> operator op****
                                    |                     |
                                    +-> C++ objects ------+-> jeveuo, jecreo, ...
                                                          |     JEVEUX: segments, marks
                                                          |     jxecro, jxliro: file glob.N
                                                          +-> asmpi_comm_vect ... MPI ranks
              any error: utmess 'F' -> clean-up -> exception -> Python

| component | state | operations | talks to | hard because |
|---|---|---|---|---|
| JEVEUX memory (`bibfor/jeveux`: jeveuo, jeveut, jecreo, jemarq, jedema, jelibe, jelibd, jelibz, jedetr, jjalls, jjldyn, jjecrs, jelibf, jermxd) | per object: segment address, usage X/U, status A/D, disk address, mark, slot; the table DESMA, `kposma`, `ipgc`; the limit `vmxdyn` and the total `mcdyn` | access, create, destroy, mark, release, evict, close | every Fortran routine, the C++ vectors, the file | any allocation may unload any idle segment; marks of nested routines; an error unwinds all levels; the table of marks itself is enlarged inside an access |
| JEVEUX file (jxecro, jxliro, jxlibd, jxecrb, jerecu, jjagod, jelibf, jeinif) | use of each record, disk address of each object, a read buffer, a write buffer, counts, `$$USADI` and `$$ACCE` | write, read, destroy, recover, grow, close, open | the memory, through jjldyn, jjlide, jedetr | two buffers over the same records; a base that grows while it is being written or closed and that describes itself |
| JEVEUX names (jjcren, jjarep, jjvern, jjprem, jxhcod) | per base: hash table, names and attributes by identifier, identifiers given; the last name found | create, find, destroy, rebuild | jecreo, jedetr, every access; the memory, when the tables grow | open addressing with tombstones that are used again; a table rebuilt in the middle of a creation, by allocations that may fail; a name remembered outside the tables |
| JEVEUX collections (jecrec, jecroc, jxveuo, jjlide) | objects of collections with marks of their own | create; access to an object of a collection | the memory | segments that hold the addresses of others |
| MPI error agreement (`bibfor/parallel`: asmpi_check, asmpi_status, asmpi_warn, asmpi_stop, asmpi_comm_vect) | per rank: status flags, current communicator; messages | check before every collective, warn on error, answer, time out, abort | utmess, every collective, `terminate()` | ranks fail anywhere between two collectives; messages left in a communicator; two kinds of communicators; delays |
| Messages and exceptions (utmess_core, Exceptions.cxx) | an exception identifier, the level of nesting | print, clean up, throw | all of the above | an error in a routine that holds half of an update |
| Logical units (LogicalUnit.py, DEFI_FICHIER / ops026, ulopen, uldefi, ulexis) | Python: free numbers, registered units and their names; Fortran: the table of opened files | new_free, release, ASSOCIER, RESERVER, LIBERER by unit or name, opening by operators | macro-commands, every operator with UNITE | two tables of one thing, changed by a call each, either of which may fail |
| Pickle file (Serializer.py: save, load, save_one, load_one, BufferObject) | the file, the names apart from it, the memo of pickle, the structures already described | save and load a context | pickle, the C++ objects | names and objects are matched by order; one pickler goes on after a refusal |
| Supervisor (execop, superv_module, op9999; ExecuteCommand.py, Serializer.py) | current command; pickled namespace and signatures | begin, end, close, save, restart | JEVEUX, Python | a restart must find a base and a namespace of the same run |
| run_aster (run.py, status.py, utils.py) | the command file it is at, statuses, the working directory, BASE_PREC | run several command files with a time limit, keep and restore the base, copy results | the processes, their exit codes, messages and files | a process may be stopped at any point of its save, or outlive the launcher's wait |
| time steps (op0070, nmnewt, nmdeco, nmevac, nmactn/f/p, nmevev, nmadat, nmfpas, nmarch; DEFI_LIST_INST) | the list of instants and their levels, the step, the iteration, the events and the states of five loops, the fields at the beginning and at the end of the step, what is stored | iterate, observe, act (stop, cut, more iterations, other solution), accept, adapt, store, fail | the numerical methods, the result, the time and the signals | one try of a step leaves flags, states and levels that the next reads; the list changes while it is gone through; a failure at any point stores a step |
| the rest: elements, algorithms, solvers, catalogues, texts, tests | numbers | floating point computation | the kernel | not a matter of states |

`PROJECT.json` lists them all, with what is modelled of each, and the hazards
at the lines where they bite.

### What makes each part correct

* **Memory.** A named object keeps the value last written in it until it is
  destroyed, whatever is unloaded, reloaded or closed in between (`JvStore`).
  The address a routine has got stays good until it releases it or returns;
  that of a C++ object, until a jeveut or a jelibe on the same object overrules it.
  After a command nothing remains in use that no one can release. Memory stays
  under the limit.
* **Names.** Every search gives the place of the name if there is one, and ends;
  a name keeps its place until it is destroyed, whatever is created, destroyed
  or rebuilt meanwhile (`JvNames`).
* **File.** What is read back is what was last written. No two objects share
  words, and free records belong to none. Buffers, file and description agree.
* **MPI.** No rank enters a blocking communication that another will not come
  to; ranks end together, all well or all in error; nobody waits for ever.
* **Logical units.** A number is free or registered, whatever fails; a unit that
  one caller holds is open in Fortran on its file, and no one else changes it;
  the next caller of a number finds nothing of the former one.
* **Pickle file.** What is read is given the name it was saved under; an object
  that is refused is lost alone; a structure that many hold is built whole.
* **Launcher.** A study that is reported completed can be restarted; after a
  failure the directory is as the last good command file left it; what a
  restart accepts is the files of one save; the state of the study is that of
  all its command files.
* **Time steps.** A step starts from the last one accepted, whatever was tried in
  between; what is stored was accepted, and converged unless the study forces it;
  no cut and no adaptation passes over an instant the user gave; the tries of
  a step are in finite number.

## 2. The modules

| module | what it is |
|---|---|
| `JvStore` | abstract: what JEVEUX promises its users, a store of named values with accesses in write mode |
| `Jeveux` | the memory manager of simple objects, under a sequential program of nested routines, with errors; `INSTANCE JvStore` under the mapping `Contents` |
| `MCJeveux` | TLC constants for it |
| `JeveuxProofs` | its inductive invariants `IInv`, `MInv` and `SInv`; types, marks, claims, the memory limit; clean segments are saved; `Jeveux` implements `JvStore` |
| `JvNames` | abstract: what the catalogue promises, names with places of their own |
| `JvCatalog` | the hash tables of the bases, their growth, the last name found; `INSTANCE JvNames` under the mapping `Registered` |
| `MCJvCatalog` | TLC names, sizes and primes for it; the real table of jjprem |
| `JvCatalogProofs` | its inductive invariant `IInv`; the searches, the rebuilding; `JvCatalog` implements `JvNames` |
| `JxDisk` | the file of one base |
| `MCJxDisk` | TLC constants for it |
| `JxDiskProofs` | its inductive invariant `IInv`: a base holds a content for each object; places, chains, buffers, readings |
| `MpiCheck` | N ranks, collectives, errors, delays |
| `MCMpiCheck` | TLC programs for it |
| `MpiCheckProofs` | its inductive invariants `PInv`, `EInv`, `IInv`; messages, rendez-vous, the end |
| `LogicalUnit` | the numbers of Python and the table of Fortran, with the calls that change one, the other or both |
| `MCLogicalUnit` | TLC numbers for it |
| `LogicalUnitProofs` | its inductive invariant `IInv`; numbers, units, holders |
| `Pickling` | the saving and the loading of a context, down to the operations of pickle and its memo |
| `MCPickling` | TLC objects and contexts for it |
| `PicklingProofs` | its inductive invariant `IInv`: what is still to be written is what a reader waits for; names, arguments and states |
| `RunAster` | the launcher, the processes it starts, the files they leave |
| `MCRunAster` | TLC marks for it |
| `TimeSteps` | the steps of op0070 and nmnewt, with their events and actions |
| `MCTimeSteps` | TLC studies for it |
| `TimeStepsProofs` | its inductive invariant `IInv`; what steps start from, what is accepted and stored |
| `RunAsterProofs` | its inductive invariant `IInv`; the state of the study, the saves |

### 2.1 `Jeveux`

One action is one call of the program, with all it does. Every routine is
sequential; the interleaving that matters is the order of calls of nested
routines, which is any.

| variable | code |
|---|---|
| `seg`, `dirty` | usage (X, U) and status (A, D) words around a segment; "out" is `iadm = 0`, "none" is not in the catalogue |
| `val`, `img` | values in memory; values a reading of `iadd` returns |
| `mark`, `slot` | `imarq(2*id-1)`, `imarq(2*id)` |
| `desma`, `kposma` | the table DESMA up to `lgduti`; its length at each jemarq; `ipgc = Len(kposma)` |
| `lgd`, `desmaLen`, `lgp` | length DESMA is believed to have (`lgd`) and really has (the segment `kdesma`); length of KPOSMA |
| `limit`, `mcdyn` | `vmxdyn`, `mcdyn` |
| `idebug` | debug mode, in which a release writes and frees at once; DEBUT sets it, the command DEBUG may change it (`Jedbg2`) |
| `phase`, `pending` | the point of the program: between commands, in one, inside jjecrs, in a step of utmess, closed, stopped |
| `claim` | history, nothing in the code: the outermost level of jemarq, or the jeveut (-1), that still relies on an address |
| `holder` | history: what the C++ object (JeveuxVector, code outside any jemarq) that keeps an address may believe: `kept`, it is in use for it; `overruled`, a jeveut or a jelibe has taken its mark away |
| `writers` | history: the objects whose address was asked for writing by code that still relies on it |

Allocation (`Jjalls`, `JjallsFails`) keeps the order of jjalls and jjldyn: no
eviction while the request fits, then idle clean segments, then all idle ones
with a new limit from jermxd, then JEVEUX_60 or JEVEUX_62. hpalloc may fail at
any time, which is why eviction is also allowed when the request fits. An error
is the whole path of utmess: `Fatal`, `Utmess` (jemarq), `Nettoyer` (superv_after),
`Jedetc` (the result of the command, any set of objects), `Unwind` (one jedema per
level), `BackToPython` (superv_after again).

Levels of jemarq and C++ objects rely on addresses in different ways, whence two
history variables. A level gives its address up when it returns. A C++ object keeps
its `_valuePtr` from one command to the next, and the code does not always keep the
segment for it: a jeveut of the same object replaces its mark 0 by -1
(jjecrs.F90:118-124), and jelibz('G') at the end of the command
(superv_module.F90:135) makes the segment idle under the pointer. `SupervAfter` does just that,
and `holder` then is `overruled`: nothing is promised any more, and the
object must ask again (`updateValuePointer`) before it uses the address.

jemarq doubles KPOSMA when it is full, through the same jjalls as DESMA, and jjecrs
doubles DESMA; both tables count in `mcdyn`. `lgp` is doubled before the call, like
`lgd`; but the message of a jjalls that fails calls jemarq at once, which writes past the old
segment: the model stops there (`NoRoomForMark`).

Left out: collections, the catalogue of names (a name is a model value), types
and lengths of values, the split of segments, the printing of messages, access
to HDF images. The catalogue is finite (`Objects` is a finite set). `hpdealloc` never fails. An object has one length (`Size`), which
jeecra would set before the first access. When `lgd` and `desmaLen` differ a
jeveuo may write past the table; the model stops there ("overrun"). C++ code writes
through addresses that it asked for writing, and asks again for one that was
overruled; the writes through addresses asked for reading (jeveuo 'L' through
updateValuePointer, as in FieldOnNodes.h) are not modelled.

### 2.2 `JxDisk`

State is one record `base`, the common blocks and the file of a base, and every
jx* routine is an operator from base to base: `Jxecro`, `Jxliro`, `Jxlibd`,
`Ecrb`, `Jjagod`, and the actions compose them in the order of the code. `img`
is a history variable, the same as `img` of `Jeveux`: the value the file must
return.

| field | code |
|---|---|
| `iusadi`, `nbdet` | words of `$$USADI`: who uses a record, how many destroyed small objects it holds |
| `disk` | words of the file, kept by the offset at which an object begins |
| `iadd` | disk addresses: record and offset |
| `iitlec`, `litlec`, `tlec` | record in the read buffer, whether it is to be written, its words |
| `iitecr`, `nitecr`, `tecr` | record in the write buffer, words used, its words |
| `nblmax`, `nbluti` | records there are, highest one used |
| `nbpeti`, `nblim` | destroyed small objects since the last recovery, and how many of them jerecu waits for |

Words matter: the model keeps the offsets of small objects, the three words
jxecro puts before them and the `nde = 6` words it keeps at the end, the test in
bytes of jxliro and the one in whole words of jxecro.

Left out: two system objects stand for fifteen (`$$USADI` and `$$ACCE`, the ones
whose closing is special); lengths are constant, so `$$USADI` does not grow with
the base; what a free record holds is forgotten, since nothing reads it; the
file is one extent (jxouvr of further extents, read and write errors of the
system, jetass and a base opened with another `nblmax` are not modelled);
`nbpeti` stops at `NbLim`, which with 0 is all it is compared with. Each base is
modelled alone; jxecro doubles bases G and V together, so a base may also grow
when the other one is filled (`Agrandir`). A new base whose system objects have
no room stops in jeinif (JEVEUX_42) and is no initial state.

The model stops in `Jelibf` ("perimee") when one of the first two writings has
enlarged the base: the writings that follow take addresses that jelibf copied
before, of segments that jjagod has freed. (op9999 closes G before V: a growth in the
closing of V then calls jjagod for class 0, since `index(classe, 'G')` is 0,
jxecro.F90:121. That is behind what is modelled: only G is closed here.)

`base.classe` is "G" or "V". Both recover their records (`Jerecu`): superv_after calls
jerecu('G') after every command (superv_module.F90:139), operators call it for V. Only G is closed
and opened again (`Jelibf`, `Jeinif`). After an opening `nbpeti` is 0, and so is
`nblim`, which jeinif sets for a new base only (jeinif.F90:202, in the branch of
DEBUT): each call of jerecu then recovers, without waiting for 500 destroyed
objects. V is thrown away and made anew at the end of a command, when more than one of
its records in a hundred is used (`Jereou`), with as many records as it has become, or
those its file may have (`NbFile`).

### 2.3 `JvCatalog`

One action is one call (`Jecreo`, `Jeexin`, `Jedetr`), except where jjarep may
fail in the middle of a creation: `JjarepName` is one turn of its loop,
`JjarepEnd` the installation of the new tables, `JjcrenEncore` the second turn
of jjcren ("goto 500"), `JjarepFails` a failure of jjalls.

| variable | code |
|---|---|
| `hcod` | `hcod(jhcod(ic)+k)`: 0, an identifier, or the opposite of a destroyed one |
| `rnom`, `type` | `rnom(jrnom(ic)+j)`; `type` stands for all the attributes of an identifier, which jjmzat clears together |
| `nremax`, `nrhcod`, `nreuti` | the counts of the same names |
| `last` | `nomos` with `iclaos`, `idatos` (and `iclasc`, `idatcc` when found again) |
| `phase`, `req`, `new` | the point of the program; the creation being served; the tables jjarep fills, with its index |

The search keeps the details its correctness depends on: the order of bases, the
tombstone that a later base makes use of (`rinser`), the test of size made before
the bases behind are searched, the double hash of jxhcod. `jjprem` is the bisection
of the code as a recursive function; TLC evaluates the table of the source in
`JjpremIsFirstAbove`.

Left out: collections and jjcodn, which hashes in the same way inside an object;
the system names that begin each base; wrong syntax of names; opening and
closing. If jjarep fails after `nremax` and `nrhcod` have changed (line 168), the
next search reads beyond tables that are not yet installed: the model stops
there ("dechire").

### 2.4 `MpiCheck`

Every rank runs the same program of `Cmds` commands of `Colls` collectives each,
some in a sub-communicator. Before a collective asmpi_check makes every rank of
the communicator tell its status to its rank 0, which waits for all or for the
delay, then answers. A rank that meets an error sends "error" on the world
instead. Actions are the points where the code can be interrupted by the order
of messages: `Collective`, `AsmpiWarn`, `Terminate` (the sends), `Test`,
`EndOfLoop`, `Answer`, `Decide` (rank 0), `Sent`, `Answered`, `Timeout` (the
others), `Enter` (the call of MPI, behind the allocation of the work vector of
asmpi_comm_vect, which may fail when the others have been told to go on) and
`Return`. `onerrf` says whether an `<F>` error aborts (DEBUT/ERREUR).

`iglbst` holds the flags of ststat; `why` tells what the rank will do when the
check passes; `net` are the messages of tags ST_TAG_CHK and ST_TAG_CNT, received
in any order. `passed`, `entered` and `excepted` are history.

External: MPI itself. A send completes, a message arrives after any time and
once, a collective returns when all have called it, MPI_Abort ends every rank. A
communicator is its set of ranks. A timeout may fire at any turn of a polling
loop, so no assumption on speed is made. An exception thrown out of
`terminate()` ends the process, and the launcher ends the others.
Left out: asmpi_checkalarm (the status is reset just before it, op9999.F90:82),
point-to-point messages between collectives, collectives that let a rank leave
early (Bcast), the option ASTER_DISABLE_MPI_CHECK.

### 2.5 `LogicalUnit`

One action is one call of a study or a macro-command: `NewFree` and `Release`
(the class LogicalUnitFile), `Associer`, `LibererUnite`, `LibererFichier`
(DEFI_FICHIER), `Operator` (a command that opens the unit its keyword names),
`Enter` and `Exit` (ReservedUnitUsed). Fortran may stop in the middle; the
exception may be caught, so the state that is left is one that the next call finds.

| variable | code |
|---|---|
| `free`, `used` | `_free_number`, popped from its end; `_used_unit`, number to name |
| `table` | the slots of `asgfi1`/`asgfi2` up to `nbfile`: unit, name, type, access, state |
| `held` | the LogicalUnitFile objects that callers hold |
| `named`, `operated`, `stuck` | history: units that a study chose by number, that an operator or a name touched, whose closing failed |

`ulopen` and `uldefi` are operators from the table to the set of tables they may
leave: the search of a blank slot (the first, the last), the slot that exists
already, the stop after the slot has been taken (UTILITAI5_21 after `nbfile` has
grown, UTILITAI_77 with the slot left). The history limits the properties to
what the code promises: a study that closes a unit by number closes it under
whoever holds it.

Left out: ddnames, contents and position of files, INQUIRE. Beyond `mxf` the
model stops (`Whole`): the Fortran loops would read past their arrays.

### 2.6 `Pickling`

save_one, load_one and the pickler are recursive. The model keeps what they have
still to do: `todo`, the calls of save_one and of the pickler's own save that are
left, `calls`, the open calls of load_one with what each waits for, `stack`, what
the unpickler has read of the present dump, with the lists that are open. One
operation of pickle is one step, on both sides: a literal, a new string or
reference with its place in the memo, the beginning and the end of a list, a
reference to the memo, the end of a dump. A dump goes to `out`, and to the file
at its end: one that fails leaves nothing in the file, but its entries in the memo. The
memo is numbered by its writer in protocol 3, by its reader in protocol 4.

| variable | code |
|---|---|
| `ctxt`, `cur` | the context in the order of its names, and the name that save or load is at |
| `todo`, `memods`, `memo`, `out`, `objList` | save: calls left, `_memods`, memo and output of the pickler, names of the infos file |
| `stream` | the pickle file |
| `pos`, `rmemo`, `stack`, `pool`, `calls`, `ret` | load: place in the file, memo and stack of the unpickler, names left, calls of load_one, the value returned |
| `args`, `state`, `got` | the BufferObject of each structure; the pairs of a name and an object |

`SaveNext`, `Describe`, `getstate` and `Stop` are save and save_one, `Save...` and
`EndList` the pickler, `Read...` the unpickler, `Return...` load_one where it goes on
with what the load_one it called has returned, `LoadNext`, `ReturnTop` and
`Restore` the loop of load and what follows it. `Tidy` says of which objects the
restart is right: what pickle refuses in them is refused before anything of it is
written, a list of structures is held by nothing else, no structure needs itself.

External: pickle itself (dump, load, the memo). Left out: the filter of the
context, the counter of names, the constructors of structures, dictionaries
(saved as the list of their values).

### 2.7 `RunAster`

The launcher has one action for each point where it waits or decides (`Launch`,
`Return`, `Timeout`, `Ending`), and a process one for each write that may be the
last: `Debut`, `Poursuite`, `Spill`, `StartSave`, `SaveNames`, `StartClosing`,
`op9999`, `StartSign`, `Sign`, `Finish`, with `Quit`, `Fail` and `Kill` at any of them.

| variable | code |
|---|---|
| `export` | tee, mode of test, expected_diag; whether each command file begins with POURSUITE, whether a study is given |
| `cwd`, `prec`, `out` | working directory, BASE_PREC, results: objects, names, base, signatures |
| `exitcode`, `exitfile`, `mess` | exit code of the shell, `_exit_code_`, fort.6 of all command files |
| `status`, `states`, `codes` | Status of the study; those of each command file |
| `proc`, `from`, `late`, `orphans` | the processes, the save each restarted from; those given up that still run |

A file holds the number of the save it belongs to, or its opposite while it is
being written. The base has two parts: `head`, the 8 million bytes that the
signature reads, and `tail`, behind them. `get_status`, `Update` and `Effective`
are functions on sets of the bits of StateOptions, in the order of the code.

Bounds of the model: an orphan is followed until the next command file is
launched, or the end; a study is given only if the first command file begins with
POURSUITE; a copy of a base is one step. Left out: other results, data files,
the analysis of a core, the times.

### 2.8 `TimeSteps`

One action for each stage of op0070 and nmnewt at which a loop may end:
`BeginStep` (label 200), `Iterate` (100 to nmcvgn), `Correct` (320), `Watch` (330,
nmevdt), `EndNewton` (nmactn), `EndFixedPoint` (nmtble, nmcvgf, nmactf), `EndStep`
(nmpost, nmcvgp, nmactp), `Accept` (nmevdt, nmcvgc, nmarch, nmfpas), `Fail` (800).

| variable | code |
|---|---|
| `study` | what DEFI_LIST_INST, CONVERGENCE and ARCHIVAGE gave |
| `sddisc` | .DITR, .DINI, DT-, ITERSUP, ESSAI_ITER_PILO |
| `numins`, `iterat`, `tours` | step, Newton iteration, turn of the contact loop |
| `flags`, `etat` | sderro: the active events (nmcrga), the states of RESI, NEWT, FIXE, INST, CALC |
| `echec` | the occurrence of ECHEC that nmevel has activated |
| `moi`, `plu` | DEPMOI and DEPPLU with what goes with them: the instant they are of, the one they were computed from, whether they converged |
| `accepted`, `archive` | history of the accepted steps; the result |

The arithmetic is that of the code on times that are multiples of a unit, the
instants of a cut rounded down; so a cut ends on the step that is too short, as
with SUBD_PAS_MINI. The number of parts of SUBD_METHODE='AUTO' and the
extrapolation of nmacex, the residuals, the return codes of the material laws and of the
solver, the quantity of DELTA_GRANDEUR, the criterion of stability and the time
left are chosen freely; nmdivr needs a third iteration, which is not counted. ADAPTATION is one
occurrence that gives twice the step or is not triggered. The entries that juveca
adds to .DINI are 0, and METHODE='AUTO' does not read them (dinins).

Left out: the explicit schemes (ndexpl), discrete contact (NEWT = CTCD),
COLLISION, INTERPENETRATION and RESI_MAXI with the actions of their own, IMPLEX,
ITER_GLOB_ELAS, CONV_PILO.

## 3. What TLC checks

Passing runs.

| run | instance | properties | distinct states |
|---|---|---|---|
| `jeveux_memory` | 3 objects of sizes 1, 2, 1, DESMA and KPOSMA of 2 words each under a limit of 6 words, one level of marks, debug mode switched or not | `TypeOK`, `CleanIsSaved`, `InUseStays`, refinement `StoreSpec` | 532,384 |
| `jeveux_marks` | 2 objects (one global), three levels of marks, DESMA of 1 word enlarged to 2, KPOSMA of 1 word enlarged to 2 and 4, limits 5 and 9 | `SlotsAgree`, `ClaimPinned`, `NothingLeftInUse`, `MemoryBounded`, liveness `ErrorEnds` | 330,933 |
| `catalog` | 3 names, 2 bases of 2 and 3 identifiers | `TypeOK`, `SearchIsRight`, `LastIsFresh`, `RebuildSucceeds`, refinement `NamesSpec`, liveness `CreationEnds` | 30,618 |
| `disk_base` | bases G and V, 2 small objects that fill a record, one object of 20 words, which takes two records of 16, the two objects that describe the base; 2 to 4 records, closing and opening of G, remaking of V | `PlacesAreKept`, `RecordsAreChains` (with `TypeOK`), `BuffersAgree`, `ReadsLastWritten` | 367,329 |
| `mpi_ranks` | 4 ranks, 1 command of 3 collectives, the second in {0, 1} and {2, 3}; errors abort or not | `Rendezvous`, `MessagesAreCurrent` (with `TypeOK`), `EndTogether`, liveness `Terminates` | 973,496 |
| `units` | 2 callers, 2 numbers, a table of 3 slots, types ASCII and BINARY, one closing that fails, two calls that choose a unit or a file | `NumbersAreKept`, `UnitsAgree` (`TypeOK`, `HeldIsOpen`, `FreeIsClosed`), action `HandleKeepsItsFile` | 1,267,370 |
| `pickling` | the contexts of 1 and 2 names over 18 objects, of 3 names over 8 of them, and five longer ones; protocol 4 | `TidyIsRestored`, `StructuresAreWhole`, liveness `LoadEnds` | 91,630 |
| `run_aster` | 2 command files, each DEBUT or POURSUITE, tee, test, a study given or not, a diagnosis expected or not | `TypeOK`, `CompletedCanRestart`, `RestoredIsLastGood`, `CanRestartMeansOneSave`, `StateIsOfAll`, liveness `Termination` | 2,324,160 |
| `time_steps` | 7 studies of 2 or 3 steps: manual lists cut in 2 and 3 on 2 to 4 levels, with DELTA_GRANDEUR, DIVE_RESI, INSTABILITE, ITER_SUPPL, contact, ARRET='NON', AUTRE_PILOTAGE; automatic lists that adapt and are cut; 2 iterations, 3 with PCENT_ITER_PLUS | `StartsFromAccepted` (with `TypeOK`), `AcceptedIsConverged`, `StoredAreAccepted`, `UserInstantsReached`, liveness `Termination` | 144,487 |

Why these bounds. *Memory*: with a limit below the sum of the sizes every access
may have to evict, and both the clean and the dirty pass of jjldyn and both
failures occur; three objects are needed for one to be evicted, one to stay in
use and one to be brought in. Three levels are needed for a jelibe or jedetr of
an object of an outer level between two others. DESMA of one word has one
enlargement that succeeds and one that fails; `MaxLgd` bounds it, and the action
is disabled, not changed, beyond. KPOSMA of one word is enlarged twice by three levels; the
limit of 9 lets it, the limit of 5 lets it once or not. *Names*: two names look at the same slots and a
third begins where they look next, so that chains cross, are cut by a
destruction, and end in a tombstone that is used again; the base of two
identifiers grows once (`MaxNames`), into a table whose slots the names share
again. The lengths 3, 7, 11, 23 stand for the table of jjprem, whose first is
11: each is prime and above 1.3 times the number of names, which is what jjprem
gives (`JjpremIsFirstAbove`), and `CatalogAssumption` says what the searches need of it.
*File*: two small objects fill a record, so that both buffers are in use over
different records and over the same one; the base starts with 2 records and
doubles at the first write over half, so that growth, recovery and a full base
occur; one destroyed object starts a recovery in a new base (`NbLim` = 1, for 500), none
is needed in one opened again; `NbMax` and `MaxRec` bound growth. *MPI*: four ranks give pairs that are
both of more than one rank; a collective on the world, one in a pair and one on
the world again give a rank of each pair that is one behind, in error, or late
in either communicator. *Units*: two callers and two numbers let a number be
given back by one and taken by the other, in either order; three slots for two
units and one more let the table be full; two calls with a unit or a name of
their own (`MaxOutside`) are a close under a holder and a second opening.
*Pickle file*: the objects are structures that hold each other in their arguments or
their state, lists of them, lists shared by others, and what pickle refuses at
the beginning, in the middle and at the end of each; marks and numbers are read in
each other's place only after a refused list and two names, whence the longer
contexts. *Launcher*: two command files are what BASE_PREC is for: one good and
one that is stopped at any point of its save, after a restart from it or not.
*Time steps*: two steps of the user are needed for a step to begin after one that
was cut or forced, and lengths of 4 and 9 let a part be cut again, on each level
the occurrence allows; two iterations are one that goes on and the last. The automatic
lists have PAS_MINI = 2, so that an adapted step that ends too near an instant of the
user is made longer (nmadat.F90:233-238). Each
study has one of the actions and the events that may compete with it.

`SYMMETRY` is used in `disk_base`, on the values and on the two small objects,
in `jeveux_memory` and in `units`, without liveness. Deadlock is checked in the runs
of `Jeveux`, `JvCatalog` and `JxDisk`, which always have a step (`Stopped` where
the process has stopped). The job of `MpiCheck`, the loading of `Pickling`,
the launcher of `RunAster` and the operator of `TimeSteps` really end; the calls of `LogicalUnit` end when the
numbers or `MaxOutside` run out or the table is overrun.

Fairness. `Jeveux`: weak fairness of `ErrorPath`; the program is sequential, and
once in utmess or jjecrs it goes on. `JvCatalog`: weak fairness of `Jjarep`, for
the same reason: a creation that has begun goes on. Nothing obliges a command to
end or a program to call, so nothing is assumed of the others. `MpiCheck`: weak
fairness of the steps of each rank. asmpi_check and asmpi_status are loops that
poll and end on their delay, MPI makes progress, and computations between
collectives end. Errors need not occur. `Pickling`: weak fairness of `Next`: save
and load are sequential loops. `RunAster`: weak fairness of the launcher alone,
which may always go on because it waits for a process at most the time of the
export file (utils.py:158). Nothing is assumed of the processes. `TimeSteps`:
weak fairness of `Next`: op0070 is a sequential program that never waits.

### Disagreements between code and comments

Each is a run that must fail; the finding in `PROJECT.json` quotes the line.

| run | property | what TLC shows |
|---|---|---|
| `jeveux_desma` | `DesmaIsLongEnough` | jjecrs doubles `lgd` before it enlarges DESMA; if the allocation fails, later accesses write past it |
| `pickling_names` | `NamesGetTheirObjects` | after an object that is refused in the middle, names get the objects of others |
| `time_levels` | `DepthBounded` | nmdcen increments the levels of all parts of a cut step but the last, which can be cut beyond SUBD_NIVEAU: 0, 9 becomes 0, 3, 6, 9, then 0, 3, 6, 7, 8, 9 |

The modules state other promises that the code breaks in instances left out of the
runs above:

| module, property | what breaks it |
|---|---|
| `JvCatalog`, `ExistingIsRefused` | jecreo of the name that was found last declares the existing object again; of any other name that exists it is the error JEVEUX_10 |
| `JxDisk`, `ReadBufferIsSmall` | jxecro and jxliro tell small from big with different tests; on the border one writes what the other reads otherwise |
| `JxDisk`, `GrowthNotPutOff` | JEVEUX_42 in jjldyn leaves `indiq_jjldyn` at 1: the base stops growing although no jjldyn is at work |
| `JxDisk`, `DescriptionIsCurrent` | jelibf uses addresses of `$$USADI` and `$$ACCE` that a growth in its own jxecro has freed |
| `MpiCheck`, `Rendezvous` with `Catches` | (asmpi_check.F90:175) with exceptions caught in the script, ranks go on one command apart and asmpi_check lets two different collectives start |
| `LogicalUnit`, `GivenIsUnused` | release_from_number puts in the list of free numbers one that DEFI_FICHIER(UNITE=28) never took out of it; after ASSOCIER, LIBERER, ASSOCIER of 28, as in astest/mfron03j.comm, new_free gives 28, which is in use |
| `RunAster`, `KeepsWorst` | Status.update takes max(0, -9), which is 0: a study stopped by the time limit after a good command file exits with 0, although its docstring (status.py:94-96) says that it keeps the worst exit code |
| `TimeSteps`, `LastAcceptedIsStored` | op0070 says at label 800 that it stores the step before; but the states of the loops are not such that nmarch is forced, and what ARCHIVAGE does not select is not in the result after a failure |
| `MpiCheck`, `DelayIsGranted` | with a negative remaining time a rank aborts at once, while message APPELMPI_94 grants a delay |

The passing runs use lengths on which the two tests of jxecro and jxliro agree,
no caught exceptions and a positive remaining time.

Met while modelling, outside of what the models state:

* *Marks.* jemarq doubles `lgp` before it enlarges KPOSMA (jemarq.F90:74); if the
  allocation fails, utmess calls jemarq, which takes the old segment for the longer
  one and writes past it (`NoRoomForMark`; the limit of `jeveux_marks` reaches it).
  A C++ object does not learn that a jeveut or a jelibe has overruled its
  address (`holder`).
* *Units.* LIBERER with FICHIER raises KeyError in post_exec after Fortran has
  closed the unit. IMPR_RESU and IMPR_CO close a unit that filename_from_unit
  still knows. An ASSOCIER that fails registers its name all the same.
  lire_fonction_ops.py:342 makes a ReservedUnitUsed without `with`.
  UniteAster.Unite calls `from_name`, which does not exist.
* *Pickle file.* A structure in a list in a list shifts the names, and `[[m1]]`
  stops the load. logger.error raises, so the `continue` at Serializer.py:255 is
  never reached. A signature file cut short raises EOFError, which
  canRestart does not catch.
* *Launcher.* Exit code 0 with a header and no normal end is `<F>_ABNORMAL_ABORT`
  with code 0. After an expected abort every later command file has one normal end
  less than headers, and is an abort. The remaining time is computed from the
  first TOTAL_JOB of a file that accumulates. ExecuteCommand.py:112 says that
  results are saved when the time is out, but such a state is not completed:
  BASE_PREC is restored and the base is not copied. canRestart compares the first
  8 million bytes of the base: a base changed behind them is accepted
  (`CanRestartMeansOneSave` says by whom). glob.2 of a failed command file
  stays beside the restored glob.1.
* *Time steps.* dfllty.F90:191-196 replaces the PAS_MINI of the user by 1.d-12, or
  by a thousandth of the first step under IMPLEX, although message ADAPTATION_11
  speaks of the user's value and astest/forma03c/d.comm give one. nmcerr.F90
  takes for NBITER the PCENT_ITER_PLUS of the last ITER_SUPPL, not the largest.

## 4. What is proved

Of `Jeveux`, for every value of the constants allowed by `JeveuxAssumption` (any
finite number of objects, any sizes and limits, any number of levels, debug mode or
not):

| theorem | says |
|---|---|
| `TypeCorrect` | `Spec => []TypeOK` |
| `SlotsAlwaysAgree` | `Spec => []SlotsAgree` |
| `ClaimsArePinned` | `Spec => []ClaimPinned` |
| `NothingIsLeftInUse` | `Spec => []NothingLeftInUse` |
| `MemoryIsBounded` | `Spec => []MemoryBounded` |
| `CleanSegmentsAreSaved` | `Spec => []CleanIsSaved` |
| `InUseIsNotEvicted` | `Spec => InUseStays` |
| `ImplementsStore` | `Spec /\ [](lgd = desmaLen) => StoreSpec` |

Of `JvCatalog`, for every value allowed by `CatalogAssumption` (any names, any
hash codes, any number and sizes of bases, any growth, any table of primes whose
lengths exceed the number of names and let a search look at every slot):

| theorem | says |
|---|---|
| `TypeCorrect` | `Spec => []TypeOK` |
| `SearchIsAlwaysRight` | `Spec => []SearchIsRight` |
| `LastIsAlwaysFresh` | `Spec => []LastIsFresh` |
| `AnEmptySlotIsLeft` | `Spec => []EmptySlotLeft` (no run states it: `RebuildSucceeds` and `CreationEnds` need it) |
| `RebuildAlwaysSucceeds` | `Spec => []RebuildSucceeds` |
| `ImplementsNames` | `Spec => NamesSpec` |

Of `RunAster`, for every value allowed by `NAssumption` and `ValueAssumption`
(any number of command files, any marks, any expected diagnoses):

| theorem | says |
|---|---|
| `TypeCorrect` | `Spec => []TypeOK` |
| `StateIsAlwaysOfAll` | `Spec => []StateIsOfAll` |
| `CompletedAlwaysRestarts` | `Spec => []CompletedCanRestart` |
| `RestoredIsAlwaysLastGood` | `Spec => []RestoredIsLastGood` |
| `CanRestartAlwaysMeansOneSave` | `Spec => []CanRestartMeansOneSave` |

Of `MpiCheck`, for every value allowed by `MpiAssumption` (any number of ranks
above one, any number of commands and collectives, any partition of the world into
sub-communicators):

| theorem | says |
|---|---|
| `MessagesAreAlwaysCurrent` | `Spec => []MessagesAreCurrent`, which includes `TypeOK` |
| `AllComeToTheRendezvous` | `~Catches => (Spec => []Rendezvous)` |
| `AllEndTogether` | `~Catches => (Spec => []EndTogether)` |
| `ErrorsAreToldToAll` | `Spec => [](aborted = "" => AllTold)` (no run states it; the two before rest on it) |

Of `LogicalUnit`, for every value allowed by `UnitAssumption` (any pool of distinct
numbers from 19 to 99 that no one else uses, any files, callers, units and length of
the table):

| theorem | says |
|---|---|
| `NumbersAreNotLost` | `Spec => []NumbersAreKept` |
| `PythonAndFortranAgree` | `Spec => []UnitsAgree`, which includes `TypeOK` |
| `HoldersKeepTheirFiles` | `Spec => HandleKeepsItsFile` |

Of `TimeSteps`, for every value allowed by `StudyAssumption` (any set of studies:
lists of instants, occurrences of ECHEC, archiving, any numbers of iterations):

| theorem | says |
|---|---|
| `EachStepStartsFromAccepted` | `Spec => []StartsFromAccepted`, which includes `TypeOK` |
| `OnlyConvergedIsAccepted` | `Spec => []AcceptedIsConverged` |
| `OnlyAcceptedIsStored` | `Spec => []StoredAreAccepted` |
| `NoInstantIsPassedOver` | `Spec => []UserInstantsReached` |

Of `JxDisk`, for every value allowed by `JxDiskAssumption` (any objects with any
lengths, records of any number of words, any initial number of records and any
bound on it):

| theorem | says |
|---|---|
| `AddressesLeadToObjects` | `SameTest => (Spec => []PlacesAreKept)` |
| `SmallObjectsFit` | `SameTest => (Spec => []RecordsAreChains)`, which includes `TypeOK` |
| `BuffersNeverShare` | `SameTest => (Spec => []BuffersAgree)` |
| `DiskReturnsLastWritten` | `SameTest => (Spec => []ReadsLastWritten)` |

Of `Pickling`, for every value allowed by `PicklingAssumption` (any objects that
hold any others, any number of names, both protocols):

| theorem | says |
|---|---|
| `TidyRestored` | `Spec => []TidyIsRestored` |
| `StructuresWhole` | `Spec => []StructuresAreWhole` |

**First argument** (`JeveuxProofs`). None of the safety properties is inductive.
That jedema of level n releases what n marked needs to know that the words of
DESMA above `kposma[n]` are those of objects with mark n, that positions in
`kposma` do not decrease and stay within DESMA, that a mark without a slot is
0, -1 or that of the access in progress, and that no claim is below its mark.
`IInv` is the conjunction of these. It holds initially, and is kept by each
action, one lemma per action or group that does the same thing to the marks; the
four theorems follow from it.

**Second argument** (`JeveuxProofs`). `SInv` adds what eviction relies on:
a clean segment has an image equal to its content, an object out of memory has
content `Zero` and is not dirty, a writer's segment is dirty. From `IInv` and
`SInv` each step of `Jeveux` is a step of `JvStore` or leaves its variables
unchanged: eviction, reading, printing and release stutter, an access in write
mode is `Edit`, the steps of an error are `Release`.

`ClaimPinned` speaks of two kinds of claims. That of a level rests on `mark` being at most
`claim`, and `claim` at most `ipgc`: a jedema releases what has its own mark, and
nothing below. That of a C++ object (`holder = "kept"`) rests on its mark being 0, which no
jedema reaches and which a jeveuo of any level leaves: the only steps that take it away are
those that make it `overruled`, destroy the object or close the base. `IInv` has the
converse too, which `NothingLeftInUse` needs: what is in use with mark 0 has such a
holder (`ZeroHeld`), and what is in use with mark -1 was asked for by a jeveut of
the present command (`PermanentClaimed`).

The hypothesis `[](lgd = desmaLen)`, and its counterpart inside three
invariants, is not a convenience. After a failed enlargement the promise is
indeed broken (`jeveux_desma`): the object keeps a mark that no jedema releases,
and the destruction of what it marks follows no level. The theorems say that this is the
only way.

**Third argument** (`JvCatalogProofs`). The search is right because of what the
probes before a name have in common, which no single call shows: `Table` says of
a hash table and a list of names that every slot used is the only one of its
identifier, that a name in it is *reached* from its first probe by slots in use,
and that a destroyed one has no name. Three lemmas say that inserting at the
first free slot, destroying, and passing over an identifier keep `Table`; a
fourth, by the pigeonhole principle, that a slot is empty. They serve twice: for the tables of
a base, and for those that jjarep fills, which are a `Table` of the names below
`kn` (`Filling`). `IInv` adds that a name has one place in all bases (jjcren
looks in all of them, before or after the test of size), that the last name found
is where it was found, and that the sizes are those of jjprem. The errors of
jjarep are then impossible: JEVEUX_59 would need a name with two identifiers,
JEVEUX_58 a table without an empty slot. For the refinement every step is one of
three: it writes a new name over `Erased`, erases one, or leaves all places.

That the lengths of the real table of jjprem satisfy `CatalogAssumption` is not
proved: TLC evaluates the assumption on the lengths of the run, and
`JjpremIsFirstAbove` on the table of the source. The increment of a
search is between 1 and the prime length less 2: this is what lets it look at
every slot.

**Fourth argument** (`RunAsterProofs`). Two facts about the bits of a state carry
the first theorem: `Effective(Effective(A) \cup B) = Effective(A \cup B)`, so
that updating one command file after the other is the same as taking all bits
together, and a state that get_status gives is a success or an error, never
both. The three others need to know what the files are at each point where a
process may be stopped. `IInv` is the conjunction of `Typed` (types, the counts of
headers and normal ends, where launcher and processes can be together), `AtWork` (the
files at each phase of the save of the present process), `Sound` (the
signatures of a directory are those of one save, a base is whole or absent, and
its unsigned part was changed only by a process that restarted from it), and
`Unforced` (as long as no diagnosis was expected, the counts are exact, the
working directory is `Saved(idx)` or about to be restored to `Saved(idx - 1)`,
which BASE_PREC holds). The counts matter because a process that exits with 0
without a save is found out only by them: `ndeb # nfin`.

**Memory limit** (end of `JeveuxProofs`). `MemoryBounded` bounds a sum over the
segments that are loaded, `MapThenSumSet` of the community modules, which is a fold
over a finite set. `MInv` adds only that a closed base has nothing loaded. What is hard
is the sum: the library states induction on finite sets with an operator as a
parameter, which the provers cannot instantiate. The well-foundedness of the
inclusion of finite sets is a first-order fact, though, and a counterexample of
least size replaces the induction: `SumsExist` and `SumsAgree` show in this way
that the recursive function inside the fold exists and that its value does not
depend on the order in which the elements are taken. `Words(S \cup {o})` is then
`Words(S)` plus the size of `o`, and each way jjalls makes room is arithmetic. That
holds for a segment, for a longer DESMA and for a longer KPOSMA, which is allocated while the
old one is still there: `Tables` is the sum of both.
This needs a finite catalogue: `IsFiniteSet(Objects)` is the first conjunct of
`JeveuxAssumption` (`nremax` is finite).

**Fifth argument** (`MpiCheckProofs`). Three invariants, each on top of the one
before. `PInv`: a message in `net` is that of the handshake its sender is in, the
only one of that rank, and tells truly whether it is in error; whom rank 0 has
heard still waits. This holds with caught exceptions too. `EInv` adds `AllTold`:
once one rank has been told of an error, each rank has taken it or nothing can keep it
from that, or rank 0 has missed a rank and is about to abort. `IInv` adds
`History` (what a rank has passed is all that is before its place) and `Together`
(when rank 0 answers "continue", all ranks of the communicator come to the same
place). The hypothesis `~Catches` is that of the code's own design, where an error
ends the script: with an exception caught in the script `Rendezvous` is violated
(section 3), because one rank then goes on a command ahead of what it has told.
Ranks are any number, so that "rank 0" of a communicator is a minimum, which
`FirstOf` gets from the well-foundedness of inclusion.

**Sixth argument** (`LogicalUnitProofs`). `IInv` is `Numbers` (a number is free
or registered, once, unless a study chose it), `Holding` (no two callers hold one
number), `HeldIsOpen`, `FreeIsClosed` and `Nameless`. The last one is what the
proof found to be needed: a slot that belongs to no unit has no file name, or
else ulnomf would find a unit that is closed, LIBERER by name would release a
number that is not open, and Python and Fortran would part. The proofs about the
table follow the possible results of `ulopen` and `uldefi`, failures included
(`DefineIsFair`, `UnlinkIsFair`): whatever the result, the units other than the one
named keep their slots and their files (`OthersKept`).

**Seventh argument** (`TimeStepsProofs`). `IInv` says for the phases of a step
which fields are those of this try (`Computed`, `Tries`), that the list of
instants is increasing around the present step and passes over no instant of the user
(`ListOK`), that the accepted steps are the list up to the present one (`Past`), and
what the archive has (`Kept`, `Ended`). The hardest step is a cut: nmdeco replaces
one instant by several in the middle of a sequence, and the instants of the user have to
be found again in the longer list, at places that have moved. The automatic list is
another matter: it is not known beyond the next instant, whence the clause that
the step which is the last of the list ends at the user's last instant. `CRIT_STAB`,
a flag that a former try may have left, has to be down until the step is computed:
else an event that stops Newton's loop could be taken for an instability.

**Eighth argument** (`JxDiskProofs`). A base is not described by what its fields
are but by what it holds: `Has(b, m)` says that base `b` is `Sound` and that each
address leads to the content `m` gives (`Placed`), wherever the current words of its record
are (`Words`: read buffer, write buffer or file). Each routine has a lemma from
`Has(b, m)` to `Has(c, n)`: reading, emptying the buffers and recovery change no
content, writing and destruction change that of one object, growth only those of
`$$USADI` and `$$ACCE`. An action composes these lemmas in the order in which the
code calls the routines, the closing included. Recovery (`JerecuKeeps`) is for any
sound base, new or opened again, G or V, and whatever `nblim` is; opening changes no more than
a reading and two counters (`CountersKeep`), so that a base that is written,
closed, opened, recovered and written again is covered by the same argument. `Sound`
adds what they need of each other: records of small objects are chains
(`Chains`), destroyed objects are counted (`Counted`), all objects in the write
buffer are before `nitecr` (`Ends`), and the two buffers never hold one record. One part
was found by the proof: a read buffer that is not marked holds a live object
(`Alive`). jerecu forgets marked buffers only, and frees records all of whose objects
are destroyed; the buffer it does not forget would become stale if its record
were among these, and it cannot be, since the destruction of its last object has
marked it. The hypothesis `SameTest` says that jxecro and jxliro agree on which
objects are small. They do not on the border (an object less than a word below the
limit, `ReadBufferIsSmall` in section 3): such an object is written as a big one and
read through the buffer of small records, which a later direct writing leaves stale.

The attempt to prove `JxDisk` changed the model: it let a base that grows twice in
its closing be described by a first image, where the code writes from freed
segments ("perimee" now stops it); it left out the growth that the other base
causes; and it had an initial base although its objects had no room.

**Ninth argument** (`PicklingProofs`). The file is written before a word of it is read,
and what is true of it is only that it will be read well. The invariant of the save is
therefore about a reader that does not exist yet. `St` and `Nx` are the load of
section 2.6 as a machine of its own, over a record, with no error in it (`Ready`
says when the code raises none); `Leads(p, q, t, L)` says that it goes from `p` to
`q` over the file `t`, through states that are right only, `L` being the objects the names
should get. While the file is written there is a reader at its end (`Following`),
whose open calls and stack fit what the writer has still to do: the triples that
fit are `Safe`, the largest relation such that what the next call of the
writer writes is what the reader waits for (`Follows`), and that the triple it leaves
fits again. That the calls of a structure, of a list, of a list of structures fit (`SafeOther`,
`SafeStructure`, `SafeListCalls`) is shown once, for any object in
`Fine`, from the end of the list of calls to its beginning. `Safe` is a union of
sets of triples, not a recursive definition: an object may hold itself, and no
induction on objects is needed. When the file is
closed the reader is at its end with all the names, and the load, which follows
the same machine step by step (`Loading`), can only reach that state. That nothing is
missing then comes from the save again: what a saved structure holds was saved or
is in `todo` (`HeldSaved`), hence all that `BufferObject.instance` needs was read
(`SavedAreBuilt`, from `Founded`).

Two things were found by this proof. `Tidy` was too weak: a list of structures in
the arguments of a structure shifts the reading, and a structure that is in its own
state is never built; TLC confirms both (`holder`, `twin`). And the loop of
load_one over a list of no item, which is read only after a refused list, waited
for one. The pickler and its reader are steps, no longer recursive operators, for the
sake of the proof.

Only model-checked. `DepthBounded` and the other properties of section 3 that the code breaks. All
liveness (`ErrorEnds`, `CreationEnds`, `Terminates`, `LoadEnds`, `Termination`),
which is out of the prover's reach. Induction with an operator as a parameter is
too, but minima of well-founded relations are not: they carry the sums of
`Jeveux`, the first free slot of `LogicalUnit`, the first rank of a communicator and the
increasing sequences of `TimeSteps`.

## 5. Plan

1. *Done*: `JvStore`, `Jeveux` and its proofs; `JvNames`, `JvCatalog` and its
   proofs; `JxDisk`, `MpiCheck`, `LogicalUnit`, `RunAster`, `TimeSteps` and their
   proofs; `Pickling` and its proofs.
2. `JxAgod`: `Jeveux` and `JxDisk` composed at jxecro. A growth allocates memory,
   hence evicts, while jjlbsg or jjlide is writing a segment that still is X D;
   an error in it leaves `indiq_jjagod` set and `ipgc` at -2 (jjarep does the
   same). Properties: the segment being written is written once and not freed
   under its writer; the flags are reset. The growth of both bases at once.
3. Collections (jecroc, jxveuo, jjlide, jelibe): marks of objects in a segment
   that is an object.
4. Proofs: that the contents `JxDisk` returns are the `img` of `Jeveux`, as a refinement of an
   abstract file; that every destruction in `JvCatalog` leaves the searches of the
   other names as they were, as an action property.
5. `TimeSteps` with discrete contact, COLLISION (nmdcex, nmdcax: the list of the
   following steps changes too) and the explicit schemes.

## 6. Not modelled, not promised

Some hazards are followed by the models, and no property speaks of them, because the
code promises nothing there. `LogicalUnit`: the numbers that a study chose
(`named`) and the units that an operator or a name touched (`operated`) are outside
of the properties; a table of `mxf` + 1 units ends the behaviour. `RunAster`: directories in
which a process given up behind a tee still runs (`orphans`), and studies whose
diagnosis was expected (`forced`). `MpiCheck`: exceptions caught in the
script. `Jeveux`: a C++ object that was overruled, and everything after a
failed enlargement of the tables of marks. `PROJECT.json` marks these hazards.

Floating point computation (elements, material laws, assembly, solvers),
generated catalogues, external libraries (MUMPS, PETSc, MED, HDF), texts and
tests: their correctness is not a matter of states. The C++ wrappers hold addresses in segments
of JEVEUX, which is `holder` in `Jeveux`: as much of them as concerns the
memory manager. Parsing of export files and options is a choice of `export` in
`RunAster`. `PROJECT.json` gives the reason for each component.
