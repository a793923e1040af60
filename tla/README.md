# A TLA+ model of midll

midll is a header-only C++ library that loads shared libraries at run time. This
directory holds TLA+ modules translated from its headers (`src/include/midll`) and from one
of its examples (`src/example/tutorial8`), the TLC configurations that check them on small instances, and proofs for the TLA+ proof system
of what matters most. References such as `shared_library.hpp:195` are to those headers.

Contents

1. [The system](#1-the-system)
2. [Modules](#2-modules)
3. [Runs](#3-runs)
4. [Proofs](#4-proofs)
5. [Where the code and its documentation disagree](#5-where-the-code-and-its-documentation-disagree)
6. [What is left out, and what is assumed](#6-what-is-left-out-and-what-is-assumed)
7. [Plan](#7-plan)

## 1. The system

### Components, their state and their operations

| component | code | state | operations |
|---|---|---|---|
| `shared_library` | `shared_library.hpp`, `detail/posix/shared_library_impl.hpp`, `detail/windows/shared_library_impl.hpp` | `handle_`: one reference to a library, or none | constructors, `assign`, copy, move, `load`, `unload`, `swap`, `get`, `get_alias`, `has`, `location`, comparison |
| dynamic loader | external: `dlopen`, `dlclose`, `dlsym`, `dlerror`, `LoadLibraryEx`, dyld | per process: mapped libraries, their reference counts, names and files; per thread: the message of `dlerror` | calls of every `shared_library` |
| imports | `import.hpp` | a `shared_ptr` that aliases a symbol and shares the control block of a hidden `shared_library` | `import_symbol`, `import_alias` from a path, a copy, a move; copying, calling and destroying the values |
| plugins | `src/example/tutorial8/refcounting_api.hpp` | a `shared_ptr` to a plugin whose deleter owns a `shared_library` | `get_plugin`, `bind`, the deleter |
| error reporting | `detail/system_error.hpp` and every operation above | `error_code&` of the caller, the thread's `dlerror` message | `report_error`, `reset_dlerror` |
| runtime symbol information | `runtime_symbol_info.hpp`, `detail/posix/program_location_impl.hpp` | none | `symbol_location_ptr`, `symbol_location`, `this_line_location`, `program_location` |
| `path_from_handle` | `detail/posix/path_from_handle.hpp`, `detail/windows/path_from_handle.hpp` | none of its own; on macOS it walks dyld's list of images | `location()`, and through it `assign()` |
| `library_info` | `library_info.hpp`, `detail/{elf,pe,macho}_info.hpp` | a stream `f_` that throws and stays failed, the format found `fmt_` | constructor, `sections`, `symbols`, `symbols(section)` |
| `load_mode` | `shared_library_load_mode.hpp` | flags | selects decorations and the flags of the loader |
| aliases | `alias.hpp`, `detail/aggressive_ptr_cast.hpp` | none | compile time |
| configuration | `config.hpp`, `midll.hpp` | none | compile time |

### How they interact

- A `shared_library` object calls the loader; objects know nothing of each other, but
  meet in the loader's reference counts, and in `assign()`, which reopens the library of
  another object **by the path** its handle tells (`shared_library.hpp:195`).
- An import makes a `shared_library` with `make_shared` and hides it in the control
  block of what it returns.
- A plugin of tutorial8 is created by an imported factory, tells its location, and the
  deleter of its `shared_ptr` opens that location once more, so that the plugin keeps its own code.
- Every failure becomes an `error_code`, or an exception whose text `report_error` takes
  from the thread's `dlerror` message.
- `location()` asks the loader for the link map of the handle, `program_location()` for
  the executable; on macOS it has to open every image to find the one with its handle.
- `library_info` reads files and uses nothing of the rest.

### What is hard

- *Interleaving.* The class synchronizes nothing (doc/faq.qbk:10-15), the loader is one
  for the process: `dlclose(handle_)` and `handle_ = 0` are two steps
  (`detail/posix/shared_library_impl.hpp:163`), and an address may be used again for another
  library between them.
- *Memory of others.* The names dyld lists are memory it frees with the image, and the walk
  reads through a pointer to one three calls later; what `get()` returned dangles after
  `unload()`.
- *Order of destruction.* The last owner of a plugin runs code of the library that the
  deleter itself keeps.
- *Check, then act.* `assign()` reads a location and opens it later; `load()` looks for
  the decorated file only after it could not be opened; the walk over dyld's images has
  its bound from before the walk.
- *Partial failure.* `load()` unloads first and can fail at four later places; an import
  can throw after it moved the library out of its argument.
- *Leftovers.* An `error_code` may come in dirty and passes through the results of up to
  three attempts; the text of `dlerror` outlives the operation it belongs to.
- *Formats.* Six probes move one stream, and read it in different ways; sections and symbols are found through parallel
  tables with lengths and indices of their own.

### What makes each component correct

- `shared_library`: no reference is lost or given back twice; a library an object refers
  to stays mapped; an assignment shares the library or changes nothing; a load ends with
  a library *or* an error; what a temporary holds is released.
- imports: what a value points into is mapped as long as any copy of the value lives.
- plugins: the code of a plugin is mapped from its creation to its deletion, and it is
  deleted when nobody holds it.
- error reporting: the error code tells the result; the text of an exception is about
  the operation that threw it.
- `path_from_handle`: the path is the one of the handle; the walk ends, leaves no
  reference and misses nothing without a reason.
- `library_info`: the format is the one of the file; what is not native is refused where
  asked; every answer is complete or an exception.

`PROJECT.json` lists the hazards one by one with the properties that cover them.

## 2. Modules

```
Loader <- SharedLibrary <- SharedLibraryInv <- MCSharedLibrary      (TLC)
              |                         ^----- SharedLibraryProofs   (TLAPS)
              v implements
          LibraryRefs
              ^ implements
              |
          Import <- Plugins <- MCImport (TLC)
             ^         ^------ PluginsProofs (EXTENDS ImportProofs too)
             ^---------------- ImportProofs
Counting: lemmas used by the proofs of SharedLibrary, Import and Plugins
ErrorReporting <- ErrorReportingProofs
WindowsLibrary <- WindowsLibraryProofs
DyldScan       <- DyldScanProofs
Answers <- ElfInfo, PeInfo, MachoInfo <- LibraryInfo <- MCLibraryInfo, LibraryInfoProofs
```

`ErrorReporting`, `WindowsLibrary` and `DyldScan` are checked without an MC module: their
configurations give every constant.

A comment that ends in *mutant: ...* stands before a wrong version of the definition,
the way a plausible bug would make it (`SwapCopyLeaks` before `SwapCopy`). No
specification uses one; they are there to see that a property notices when the
definition is replaced by it. `PROJECT.json` pairs each property with its mutant.

### Loader

The environment of the POSIX code: the file system as a function from paths to files,
which other programs change (`FileChange`), and the loader: a count, the names, the
`l_name` and the file of every mapped library. `Dlopen` looks as glibc does: a library
already known by this name, a mapped library with this file, a new mapping; each may
fail. `Dlclose` of the last reference frees the address, and `MapNew` may use it again.
Only `ProgramLocation` is code of the repository
(`detail/posix/program_location_impl.hpp:100`).

### SharedLibrary

Threads and objects on top of `Loader`. An operation is a sequence of steps, one per
call that leaves the object, with the label of the next one in `pc[t]`:

| label | step | code |
|---|---|---|
| `idle` | `BeginLoad`, `BeginUnload`, `BeginAssign`, `MoveConstruct`, `MoveAssign`, `SwapObjects` | entry of the operation, and what it does before its first call |
| `unload` | `UnloadClose` (`dlclose(handle_)`) or `UnloadNothing` | posix/shared_library_impl.hpp, `unload` |
| `reset` | `UnloadReset` (`handle_ = 0`) | `unload` |
| `decorated` | `OpenDecorated` | first `dlopen` of `load` |
| `exists` | `CheckDecorated`, with the exception of `exists()` as one outcome | `exists(actual_path)` and what follows |
| `exact` | `OpenExact` | `dlopen` of the path as given |
| `self` | `NotSelf`, `OpenSelf` | the executable itself, `dlopen(NULL)` |
| `location` | `Location` | `lib.location(ec)` in `assign` |
| `swap` | `SwapCopy` | `swap(copy)` in `assign` |
| `done` | `Return` | the caller has its result |

The temporary `copy` of `assign()` is an object of its own, named by the thread. An object not constructed
yet, or destroyed, is an empty one. `RaceFree` is the contract of the documentation: an object
one thread changes is used by no other, several threads may read one.

### LibraryRefs

The abstract specification: objects refer to a library or none, a library some object
refers to is loaded. No threads, paths, errors or counts. `Take`, `Share`, `Drop`,
`Trade` and `Forget` are all that may happen. The mapping from `SharedLibrary` is
`held[i] = Owned[i]` (the handle, or nothing between `dlclose` and `handle_ = 0`) and
`loaded = {h : refs[h] > 0}`; from `Import` it is the objects with the ones hidden in
control blocks.

### SharedLibraryInv

The inductive invariant, see [Proofs](#4-proofs).

### Import

`shared_library` is used through what it promises (`LibraryRefs`, `RefsExact`). The
three forms are `MakeFromPath`, `MakeFromCopy`, `MakeFromMove`; then `Get` or
`GetThrows`, `Share` (the aliasing constructor) and `ReleaseLocal` (the local `p`).
`Release` is the destructor of any `shared_ptr`, `Destroy` the one of the hidden object.
Values are copied and called (`BeginCall`, `EndCall`) while other threads drop theirs.

### Plugins

Example tutorial8 on top of `Import`. The factory is an imported value that a thread calls;
`Create` is the call of it, which gives the thread a plain pointer (`made`). `bind()` is two
steps: `Locate` asks the plugin for its location (`told`), `Bind` opens that path, and the plugin
becomes a value that shares the control block with the deleter. The open is `Opened`: the library
that is mapped under the path, and *any* library if none is, for the file may be another by then;
that the deleter gets the plugin's own library is a consequence of the factory being alive, and
of `get_plugin()` destroying it last (`EndGetPlugin`). `BindThrows` is the failure of either call.
`Delete` is the destructor of the plugin, run by the last owner, `DestroyDeleter` the
destruction of the deleter and its library behind it. `object[b]` is the plugin the deleter in `b`
owns.

### ErrorReporting

One thread, one operation after the other, on one of five `system`s. `dl` is the message `dlerror` would give:
`own` of this operation, `old` of an earlier one. A failing loader call replaces it, a
successful one may or may not discard it (implementations differ). `ec` is the error
code, which the caller may hand over dirty, `text` what an exception carries, `escaped`
an exception of `std::filesystem`. `location()` has the forms of
`posix/path_from_handle.hpp`: the link map (Linux, QNX), `dlinfo` (FreeBSD), the walk (macOS),
and two guesses at the layout of the linker's `soinfo` (Android: `LocationAddress`, which leaves
its error in `ec` when the guess was wrong, and `LocationOtherAddress`, which has to replace it); `program_location()` those of `posix/program_location_impl.hpp`.

### WindowsLibrary

`load()` with its three candidates (`decorated`, `mingw`, `exact`) while other programs
change the files, `unload()`, `get()`, and the three questions for a path: `location()`,
`program_location()` and `symbol_location_ptr()`. An `AllocationBase` is what `VirtualQuery` says of an
address; `pointer` is where the last address `get()` returned points to, `freed` once
its library was unloaded. `GetModuleFileName` is external, with the buffer of
`windows/path_from_handle.hpp:33`.

### DyldScan

The walk of posix/path_from_handle.hpp on macOS: `ReadName`, `OpenProgram` /
`OpenImage` / `OpenGone`, `CloseAndCompare` are the body of the loop, between which other
threads load and unload images; the list moves up when an image leaves it. `name` is the
*pointer* dyld gave: `cell` says where the name of each image is kept and `text` what is
in that memory, which an image that is loaded later may get. `Convert` makes the path from the
pointer, after the handle was closed.

### LibraryInfo, ElfInfo, PeInfo, MachoInfo

`LibraryInfo` is the object: `Open`, the six probes (`ProbeMatches`, `ProbeNext`,
`ProbeFails`), the three questions, the destructor, and another program that cuts the
file (`Cut`). A read of a file that was cut may throw, and the stream then stays failed.
A file has a format, or none, by definition; the probes do not see it. They see whether white
space stands before or among its first bytes (`blanks`), those bytes without it (`bytes`), the size the NT header names
(`nt`), and how far a probe can read (`ends`). The ELF probe reads with `>>`, which skips white
space (`elf_info.hpp:124`), the PE and Mach-O probes with `read()`, which does not
(`StartsWith`, `ElfMatches`, `PeMatches`, `MachoMatches`, and what ends too early for each in
`ElfFails` and `PeFails`). A class that
was chosen for a file of another format may answer anything (`Anything`).
ElfInfo, PeInfo and MachoInfo are pure: what each class reads out of an abstract file, and a
reference definition (`FileSections`, `FileExports`, `FileExportsOf`) of what the file
says. A question has a *set* of names as its answer: order and repetitions, which the code does
not promise, are left out. It may have several outcomes where the code reads past a table
(`Answers` names the kinds). An ELF file may have its section headers `counted` in the ELF header, too
`many` for that, or `gone`; the code then reads something else as the header of the names.
`Sections`, `Symbols` and `SymbolsOf` of a module are the functions of the class of the
same name. At the end of each module are the conditions on a file under which its answers are
complete (`NamesWhole`, `SymbolsKept`, `ExportsNamed`, `SectionsDistinct`, ...). Linkers and `strip` see to all but the last;
names of sections may share bytes, as linkers let them. The theorems of LibraryInfoProofs assume them, the model does not.

### MC modules

Only model values, inputs, symmetry and, in MCLibraryInfo, an assumption that TLC evaluates:
the inputs of `library_info` fulfil the conditions of the theorems. A configuration replaces no definition of the
modules: `<-` gives a constant the value of a definition.

## 3. Runs

`tlc -config X.cfg M` for each line of the table (state counts are of distinct states).

### Runs that hold

| run | module | states | question |
|---|---|---|---|
| `shared_library_threads` | MCSharedLibrary | 82476 (with symmetry) | do two threads that load, unload and assign keep the counts exact, share what they assign, get what they load, and implement `LibraryRefs`? |
| `shared_library_loads` | MCSharedLibrary | 146240 | what does each operation leave behind, for every kind of path and every change of a file between two of its calls? |
| `import_values` | MCImport | 151089 | does a value outlive its library, does a count go wrong, is a library kept by nobody given back, has a plugin its code as long as it exists? |
| `error_reporting` | ErrorReporting | 2110 | does the error code tell the result, and does an exception tell its own failure, on five systems? |
| `windows_library` | WindowsLibrary | 46888 | a library or an error, the decorated name first, and whose path is a location? |
| `dyld_scan` | DyldScan | 301638 | does the walk end, give back what it opened, find what stays, and name it? |
| `library_info` | MCLibraryInfo | 22147 | is the format found, the foreign refused, the answer complete, and what does `sections()` of an ELF file miss? |

What each property says:

- **shared_library_threads.** `RefsExact`: the count of the loader is the number of
  objects that will give one reference back, the temporaries included, at every step.
  `AssignShares`: an assignment without error makes the objects equal, though the copy is opened
  by path and the file may be another by then. The reason it holds is that the loader knows
  the library by its `l_name` as long as `lib` keeps it mapped, and `lib` must not be changed
  during the call. `ImplementsRefs`: the refinement.
  `MappingStays` (an action property): while some object refers to a library, whichever it is, the
  library is neither unmapped nor mapped anew, so what `get()` returned stays valid. `IInv`: the
  invariant of the proofs is one.
- **shared_library_loads.** `LoadResult`: no error exactly when loaded, unless `exists()`
  threw, and then with a library known by the requested or the decorated name. `AssignAllOrNothing` (an action
  property): an assignment changes its target in one step to the library of `lib` or not
  at all. `ReleasedEventually`: a library nobody but a temporary refers to is released.
- **import_values.** `ImportedIsLoaded`: the promise of import.hpp. `UsesExact`,
  `CountExact`: control blocks and loader count their owners. `ImplementsRefs`: imports
  keep what `shared_library` promises. `GivenBack`: also after an import that threw.
  `PluginCodeMapped`: the code of a plugin is mapped while only the factory keeps it, after
  the factory has gone, and while the last owner deletes it, though the deleter opens its library
  by path. `PluginsDeleted`: a
  plugin nobody holds is deleted. `PluginIInv` is the invariant of the proofs.
- **error_reporting.** `ErrorCodeIsResult`, for clean and dirty error codes, and after a wrong
  first guess on Android; the failure of `sysctl` on FreeBSD is the one it leaves out. `EIInv` is the invariant of the proofs.
  `LoaderTextIsOwn`: an exception of `load`, `get` or `symbol_location` has no text of an earlier
  operation. `LoadLeavesNoMessage`: a load that worked leaves nothing of its failed attempts.
- **windows_library.** `LoadResult` as above. `DecoratedFirst`: a later name is taken
  only if each earlier one was absent at some moment of the call. `LocationOfModule`: it is the path of
  the module asked for, or an error, but for a pointer into a library that was unloaded.
  `WIInv` is the invariant of the proofs.
- **dyld_scan.** `RefsExact`; `FoundUndisturbed`: a library is missed only if an image
  left the list meanwhile; `PathIsTarget`: the path is the one of the handle, though it is made
  from memory other threads free and fill; `ScanEnds`: the walk ends while images come and
  go. `DIInv` is the invariant of the proofs.
- **library_info.** `LIInv` is the invariant of the proofs. `FormatIsFile`: the probes, which see
  bytes only, find the format the file has by definition, and blanks before the ELF magic are
  the one thing that deceives them (`BlanksSkipped`). `NonNativeRefused`, but for the same files;
  `FormatsUnderstood`: a file of a known format is refused for a reason only. `SymbolsListed`,
  `SectionSymbolsListed`: the lists are the ones of the file, or there is an exception. In an ELF
  file whose sections are not counted no symbol is found, and none invented. `OnlyEndsMissed`:
  `sections()` of a counted ELF file, which reads the table of names and no header, lists names
  of sections only, and misses none but names that end a listed one; the inputs have `.plt` inside
  `.rela.plt` and beside it. For PE and Mach-O the list is the table of the file, and there is
  nothing to compare.

### Runs that find a counterexample

| run | property | what it shows |
|---|---|---|
| `shared_library_move` | `MovedFromIsEmpty` | the object moved from by an assignment is not empty |
| `error_escapes` | `OnlyErrorCode` | `load(path, ec, append_decorations)` throws |
| `info_formats` | `FormatsUnderstood` | no PE file is understood where `long` has eight bytes |
| `info_elf_sections` | `SectionsListed` | `sections()` of an ELF file misses `.plt` in `.rela.plt` |
| `windows_long_path` | `LocationWhole` | a path that does not fit the first buffer is returned cut, without an error |

See section 5 for the code and the words they contradict.

### Bounds, and why they are enough

- *SharedLibrary*: two handles, so that an address is used again and two libraries are
  mapped at once; two library files, so that a path can change from one to the other
  or to nothing; four paths: `a`, its decoration `liba`, the executable, and a path no
  file has. Three objects with two threads let two assignments share a source while a third
  object holds what they replace; operations that touch one or two objects of one thread are
  checked with two objects and one thread (`shared_library_loads`), where all of them and all
  paths, the empty one too, are allowed. Only `a` changes in the threaded run. Counts
  need no bound: every reference is some object's. The executable's file is removed in
  `shared_library_loads`. For any number of everything see the proofs.
- *Import*, *Plugins*: two threads, one object, three values and three blocks: a factory, a
  plugin and a copy of it at once, or a value, its copy and an independent import, and a block
  reused; one library has the symbol and one has not.
- *ErrorReporting*: finite without any bound; all operations, all five systems.
- *WindowsLibrary*: a buffer of 3 in the place of 260 and lengths 2 and 3, the last that fits and
  the first that does not, for the library and the program.
- *DyldScan*: three libraries, of which one, or the executable, is the target; three memory cells,
  so that a name takes the place of one that was freed; `MaxRefs = 2` references of other threads for each (a
  bound of the model): an image can leave before, at and behind the index, and come again.
- *LibraryInfo*: the inputs are files with one symbol of every visibility, binding,
  size and section beside fixed ones, with counted headers, too many, or none (ELF), every assignment of three exports to
  sections with sorted and unsorted names (PE), symbol names with none, one and two underscores,
  of three kinds, in one or two segments, with the symbol table first or last (Mach-O), files of
  no format, which begin like one or end in the middle of what a probe reads, and such files
  behind blanks;
  64-bit Linux and 32-bit Windows, the platforms where the refusals differ.

### Deadlock and fairness

No run switches the deadlock check off: a program may always begin another operation,
and a thread inside one has a step. Fairness is stated where a property needs it:

- `SharedLibrary!FairSpec`, `Plugins!FairPluginSpec`: weak fairness of `Step(t)` and `PluginStep(t)`,
  the steps *inside* an operation. The code has no lock and no wait, so a thread in an operation
  is always able to go on, and the system schedules it. Nothing obliges a thread to begin
  an operation or the file system to change.
- In `FairPluginSpec` a thread with a plain pointer goes on to bind it or is left by an
  exception; it is not obliged to call the factory, nor to drop a plugin.
- `DyldScan!Spec`: weak fairness of the body of the loop, for the same reason; the other
  threads have none. `ScanEnds` holds although they may load for ever.

`ReleasedEventually` runs with one thread (in which every operation occurs), `GivenBack`
and `PluginsDeleted` with two.

## 4. Proofs

`tlapm M.tla` for `Counting` and the seven modules named `...Proofs`: 5687 obligations. They
hold for any finite sets of threads, objects, values and blocks, any handles, paths, files,
libraries, lengths and sizes of a buffer, any function `Decorate` and any inputs of
`library_info`, under the assumptions the modules name (`LoaderAssumption` and so on), which TLC
evaluates for the instances above. Finiteness is what makes a count of owners a number; the rest
says that null handles, the executable and the empty path differ from everything else.

| theorem | says |
|---|---|
| `InductiveInvariant` | `Spec => []IInv` |
| `TypeCorrect` | `Spec => []TypeOK`: no reference count is ever negative |
| `ExactReferences` | `Spec => []RefsExact` |
| `AssignedIsShared` | `Spec => []AssignShares` |
| `LoadedAsAsked` | `Spec => []LoadResult` |
| `Implementation` | `Spec => ImplementsRefs`: SharedLibrary implements LibraryRefs |
| `HeldLibraryIsLoaded` | a library an object refers to is mapped |
| `PointersStayValid` | `Spec => MappingStays` |
| `AssignmentIsAtomic` | `Spec => AssignAllOrNothing` |
| `ImportInvariant`, `ImportTypes` | `Spec => []IInv` (of Import), `[]TypeOK` |
| `ValuesStayValid` | `Spec => []ImportedIsLoaded` |
| `ExactUses`, `ExactCounts` | `Spec => []UsesExact`, `[]CountExact` |
| `ImportImplementation` | Import implements LibraryRefs |
| `PluginInvariant`, `PluginsStayMapped` | `PluginSpec => []PluginIInv`, `[]PluginCodeMapped` |
| `PluginValues` | `PluginSpec` implies `[]ImportedIsLoaded`, `[]UsesExact`, `[]CountExact`: the run `import_values` checks them there |
| `PluginImplementation` | `PluginSpec => ImplementsRefs`: with plugins, whose deleters load and unload, LibraryRefs is still implemented |
| `ErrorInvariant`, `ErrorCodes`, `LoaderTexts`, `LoadsAreQuiet` | `Spec => []EIInv` of ErrorReporting and its three properties, for any set of operations and systems |
| `OnlyDecoratedEscape` | `[]OnlyErrorCode` where `load_decorated` is not called |
| `OwnTexts` | `[]TextIsOwn` where only `TextOps` and `has` are called |
| `WindowsInvariant`, `WindowsLoadResult`, `WindowsDecoratedFirst`, `WindowsLocation` | `Spec => []WIInv` and the three properties of `windows_library` |
| `WindowsLocationWhole` | `[]LocationWhole` where every path is shorter than the first buffer |
| `ScanInvariant`, `ScanKeepsReferences`, `ScanPath`, `ScanFinds` | `Spec => []DIInv` and the three safety properties of DyldScan |
| `ScanTerminates` | `Spec => ScanProgresses`: a variant of the loop, the safety part of `ScanEnds` |
| `LibraryInfoInvariant`, `LibraryInfoFormat` | `Spec => []LIInv`, `[]FormatIsFile` |
| `LibraryInfoNonNative` | `[]NonNativeRefused` where no input is on macOS |
| `LibraryInfoUnderstood` | `[]FormatsUnderstood` where PE files are read with a `long` of four bytes |
| `LibraryInfoSections` | `[]OnlyEndsMissed` where every string in the table of names is the whole name of a section (`SectionsAsLinked`), whichever other names share its bytes |
| `LibraryInfoSymbols` | `[]SymbolsListed` where the symbol tables are as linkers and `strip` leave them (`SymbolsAsLinked`) |
| `LibraryInfoSectionSymbols` | `[]SectionSymbolsListed` where besides a symbol has a section with a name of its own and PE exports have names (`PlacesAsLinked`) |
| `LibraryInfoAsserts` | `[]AssertsHold` where every PE file exports something (`AddressesThere`); no run checks `AssertsHold` |

The theorems with a condition in the right column assume it: without it the property is false,
and section 5 tells of the disagreement it leaves out (a theorem then says that nothing else is
wrong). The conditions are satisfied: the inputs of `library_info` fulfil `SectionsAsLinked` and
`PlacesAsLinked`, which contains `SymbolsAsLinked`, and `PeOnLinux` fulfils `AddressesThere`
(`FilesAsLinked` of MCLibraryInfo, which TLC evaluates). `windows_long_path` is the run without the
condition of `WindowsLocationWhole`.

**The invariant of SharedLibrary.** `RefsExact` is not inductive: nothing in it says
that the handle closed at `unload` is the object's own, and `AssignShares` says nothing of
the steps before `done`. `SharedLibraryInv` adds

- `LoaderInv`: two mapped libraries answer to different names, each to its `l_name`, and none
  to a name of the executable. This is why opening `l_name` again gives the same
  handle, whatever the file is: the core of `assign()`.
- `Exclusive`: what one operation writes, no other one in progress uses.
- `CallInv`: what a thread at a label has established about its object and path.
- `CopyInv`: the temporary has a library only from the open to its destructor.
- `AssignInv`: from `location` to `swap`, the path is the `l_name` of the library `lib` refers to.

**The argument.** `Counting` proves how a count of owners follows one object changing its
value, and two exchanging theirs. `RefsStep` reduces every action to one of these or to no
change of `Owned`; `LoaderStep` shows that names stay apart; `ExclusiveStep` and
`ThreadStep` treat the thread that moves (`BeginThread`, `OwnStep`) and all the others
(`FrameStep`: what they rely on is not touched, by `Exclusive`, and a library they hold
keeps its names, because its count, by `RefsExact`, is above zero). `StepRefines` maps each step to one
of LibraryRefs or to a stutter: `SwapCopy` is a `Share`, `UnloadClose` a `Drop` or a
`Forget`, an open of an object a `Take`, an open of a temporary a stutter because the
library is mapped already.

**The invariant of Import** adds to the counts that a value points into the library of
its block (`BlockInv`), what a thread has at each label (`ThreadInv`), and that no two
threads build one value or destroy one block (`Apart`). `ValuesStayValid` then follows:
a value shares a block, the block is counted and so not destroyed, its object refers to
the library, so its count is above zero.

**LoadResult** needs a look one step back: what `dlopen` gave is known by the name it
was asked for, and the object keeps the library mapped, so it keeps that name while other
threads load and unload.

**The invariant of Plugins** is that of Import and two facts (`PluginInv`): the plain pointer
of a thread is a plugin of the library whose factory it is calling, and the
deleter of a plugin refers to the plugin's library. A value being called keeps its block, and
a block its library, so both kinds of plugin are mapped.

**The invariant of ErrorReporting** (`EIInv`) says at which labels `ec` is clear and `dl` is of
this operation: only `symbol_location_ptr` starts with what the caller had, and only the
attempt by the given name goes on with an error.

**The invariant of WindowsLibrary** (`WIInv`) says what an attempt leaves for the next
(`AttemptInv`) and that every name passed over was absent at some moment (`MissedInv`), while the
files change under it.

**The invariant of DyldScan** (`DIInv`): the name of the object's library is in one cell, where
it stays because the object keeps the library (`NameInv`); the handle of the object is met by
that name only (`ProbeInv`); and as long as nothing left the list its image is at or ahead of
the index, within the bound read before the walk (`AheadInv`).

**The invariant of LibraryInfo** (`LIInv`): none of the probes before this one matches
the file (`ProbeInv`), and a refusal has one of four reasons (`RefusalInv`). `FormatIsFile` follows
from what each format is by definition and from the order of the probes: the magic numbers exclude
each other, an ELF file passes the ELF probe of its class and no other, and a file that is no
ELF file passes one only behind blanks.

**The answers of library_info.** `FormatIsFile` says which class answers; what is left is a fact
about each class and any file: what it reads out of the file is what the file says. For the
sections of an ELF file it is that a string of the table of names ends where one of the sections'
names does, and that the walk stops at each of these ends once. For its symbols it is that the last header of a type and a name is the only one, so that the symbols are those
of `.symtab`, or of `.dynsym` after `strip`; for PE that a name, an ordinal and an address of one
export are at one index; for Mach-O that the place of a name in `sections()` is the number of
the section. The sections of a Mach-O file are those of all segments in a row (`FlattenSeq`,
a recursive function): that it exists and is a sequence (`FlattenUnfolds`, `FlattenIsSeq`) is
proved with the least number for which it fails (`LeastNumber`, from WellFoundedInduction).

**What is wrong in ErrorReporting, and no more.** `exists()` is reached by a decorated load only
(`OnlyDecoratedEscape`). A text of an earlier failure comes from an operation that reports an
error no loader call made: `assign`, `location`, `program_location`, `symbol_location_ptr`; without them
`TextIsOwn` holds (`OwnTexts`), though overloads with an error code and `has` leave messages behind.

**Why the walk ends.** `Remaining` counts the steps up to the bound read before the walk. A step of
the loop makes it smaller, nobody else changes it (`ScanTerminates`). That a step of the loop
is always possible, which `ScanEnds` needs too, is checked by TLC.

**Only model-checked.** The liveness properties `ReleasedEventually`, `GivenBack`,
`PluginsDeleted` and `ScanEnds`: liveness under fairness, and that a step is enabled, are out of
reach of the prover.

## 5. Where the code and its documentation disagree

With a run each:

1. **Move assignment** (`shared_library.hpp:158`). The documentation of
   `operator=(shared_library&&)` says *post lib.is_loaded() returns false* (`:153`). The code
   swaps the objects, so `lib` is left with what `*this` had, and leaves both alone when they
   refer to one library. Seen with a compiled program as well.
2. **An exception leaves the overload with an error code**
   (`detail/posix/shared_library_impl.hpp:119`). `exists(actual_path)` has no `error_code`
   and throws `filesystem_error`, for instance for a name too long with
   `append_decorations`. The documentation (`shared_library.hpp:260`) names only
   `std::bad_alloc`. Seen with a compiled program as well.
3. **PE on 64-bit Unix** (`detail/pe_info.hpp:31`). `LONG_` is `long`, so `e_lfanew` is
   read from offset 64 instead of 60. library_info.hpp:26 says all formats are
   understood on all platforms. The offsets were confirmed with a compiler.
4. **Sections of an ELF file** (`detail/elf_info.hpp:142`). The list is made from the table
   of names and not from the headers; linkers let a name share the bytes of a longer one. `.plt`
   at the end of `.rela.plt` is then missing, on real files too.
5. **Long paths on Windows** (`detail/windows/path_from_handle.hpp:33`). `location()` promises the
   *full path* (`shared_library.hpp:419`), `symbol_location_ptr()` too
   (`runtime_symbol_info.hpp:35`). For a path of 260 characters or more `GetModuleFileNameW` fills the
   buffer and returns its size, not zero: the cut path is returned with a clear `ec`, and the loop for
   larger buffers (`:40`) is never entered. `WindowsLocationWhole` says that nothing else
   shortens a path.

Seen while modelling, shown by changing a constant of a configuration:

- *Text of an earlier failure.* `symbol_location_ptr(nullptr)` throws with whatever message
  `dlerror` still has (`runtime_symbol_info.hpp:57`, `:101`). `TextIsOwn` of ErrorReporting states the
  general property and fails, also with `Ops = {"has", "load", "symbol_location_ptr"}`: `has` of a
  missing symbol leaves a message. `LoaderTextIsOwn` is the part that holds, and `OwnTexts` says
  for which programs all of it does.
- *macOS accepts ELF as native.* `throw_if_in_macos` tests macros named `BOOST_OS_*`, which
  nothing defines (`library_info.hpp:66`, `:134`). `Inputs <- ElfOnMac`, `NonNativeRefused`.
- *FreeBSD does not look at `sysctl`* (`posix/program_location_impl.hpp:62`): if it fails, the
  path is made from a buffer nobody wrote. `ErrorCodeIsResult` leaves out exactly that.
- *A dangling pointer names the program on Windows* (`runtime_symbol_info.hpp:73`): memory that
  was freed with its library has no allocation base, and a null module is the executable. No error is
  reported. `LocationOfModule` says this is the only case.
- *A plugin leaks when `bind()` throws* (`example/tutorial8/refcounting_api.hpp:40`): between
  `creator()` and the `shared_ptr` nobody owns it. `BindThrows`; no property can hold of it.
- *ELF files whose header does not count the sections*: with the section headers
  removed, or with more than 65279 of them (where the count is in the first section
  header), `e_shstrndx` leads to the ELF header or past the table (`detail/elf_info.hpp:183`). No symbol is found
  though other modules could bind to some, and `sections()` may list arbitrary bytes or throw.
- *PE section names of more than eight bytes* are listed as `/n` (`detail/pe_info.hpp:281`, a
  TODO there). By reading only.
- *PE exports by ordinal.* `symbols(section)` makes as many rounds as there are
  functions over tables with one entry per name (`detail/pe_info.hpp:351`): it reads past them, or
  misses a second name. `Inputs <- OrdinalOnWindows`, `SectionSymbolsListed`.
- *Mach-O symbols without N_EXT* are listed as exportable (`detail/macho_info.hpp:259`).
  `Inputs <- StaticOnMac`, `SymbolsListed`.
- *Two Mach-O sections of one name* in two segments: only the first is searched
  (`detail/macho_info.hpp:317`). `Inputs <- TwiceOnMac`, `SectionSymbolsListed`.
- *Blanks before the ELF magic.* The ELF probe skips white space before each of the five bytes
  (`detail/elf_info.hpp:124`), so such a file is taken for an ELF file, also where only native files
  are asked for. `FormatIsFile` and `NonNativeRefused` name this case.
- *PE files without exports* (`detail/pe_info.hpp:352`): `symbols(section)` asks for
  the file offset of address zero, against the assert at `:242`, though the comment at `:226`
  knows that the address can be 0. `Asserts = TRUE` in library_info.cfg, `AssertsHold`;
  `LibraryInfoAsserts` says that other files are safe.
- *Protected symbols.* A comment of `detail/elf_info.hpp:114` calls `STV_PROTECTED` "not exported".
  The code lists them (`is_visible`), other modules can bind to them, and
  `src/test/case/test_library_info.cpp:25` expects them: the reference definition counts them as exported.
- *macOS may miss a loaded library* when another thread unloads one (`posix/path_from_handle.hpp:35`),
  and for the executable's handle passes a null name to `path` (`:49`). `FoundUndisturbed`
  and `PathIsTarget` say when.

By reading only: the overloads of import.hpp that take a `std::string` do not compile, for
they call `dll::import_symbol` and `dll::import_alias`, and there is no namespace `dll`
(`import.hpp:104,121,138,191,208,225`). The model reads them as `midll::`.

## 6. What is left out, and what is assumed

Assumptions about the environment

- `dlopen` matches by name, then by file, then maps, and keeps a library mapped while its
  count is above zero (glibc; musl compares device and inode for a path with a slash in it, and never
  unmaps). A library a library depends on is no
  part of the model.
- The executable may be removed while it runs. It is not overwritten by a library, and no path
  becomes another name of it (`FileChange`).
- Each object is used according to doc/faq.qbk:10-15: no race on one object.
- No exhaustion of memory except as a failure of `dlopen`; `make_shared` does not throw.

Abstractions

- *SharedLibrary*: `location()` gives a path that names the file it named when the library was
  loaded. A relative path after a change of the working directory is the same as a change
  of the file at that path, which is modelled: the loader still knows the library by its `l_name`.
  `get` and `has` change no object and are in ErrorReporting. A symbol whose address is null is left
  out.
- *ErrorReporting*: which file `dladdr` names, and the layouts of `soinfo`, are a choice of
  right or not found.
- *WindowsLibrary*: one thread; moves, swaps and `assign` are the code of
  `shared_library.hpp`, modelled on POSIX.
- *Plugins*: the plugin is in the library of its factory, as in the example. The example includes
  `boost::dll` and `boost::shared_ptr`; midll is a port of the first, and the model runs the example on
  midll and `std::shared_ptr`.
- *Import*: a type is not modelled; `get` and `get_alias` differ only in one more
  dereference. What a caller does with a pointer taken with `get()` itself is its own
  responsibility, as the documentation says.
- *LibraryInfo*: files are records, not bytes. Malformed headers, names of more than eight
  bytes in PE, forwarded exports and exports in a section without data are not in the
  inputs. A symbol of size zero is not counted as exported (`is_visible` of elf_info leaves it out
  on purpose).
- *load_mode*: apart from `append_decorations` the flags are handed to the loader.

Not modelled: `aggressive_ptr_cast`, the alias macros and the configuration, which do nothing
at run time; the other examples, which only use what is modelled (`plugins_collector`
of tutorial5 keeps loaded libraries in a map), tests and the build.

## 7. Plan

Done, in this order: Loader, SharedLibrary, LibraryRefs with its refinement and proofs;
Import with its own; ErrorReporting, on all POSIX systems, with proofs; LibraryInfo and the
formats, with proofs of the probes; WindowsLibrary with the questions for a path and proofs;
DyldScan with dyld's memory and proofs; Plugins with proofs; `LoadResult` of SharedLibrary and the exception
of `exists()` in it; the answers of `library_info` as theorems, with the conditions on the files;
what delimits the disagreements of section 5; `MappingStays`; LibraryRefs implemented by programs
with plugins.

What could follow, the most valuable first:

1. `plugins_collector` (`example/tutorial5/load_all.cpp`) on top of SharedLibrary: a map that keeps
   one library per name and drops the others.
2. The byte ranges the ELF and Mach-O classes read, with wrapping sums of malformed headers.
3. PE forwarders, long section names and exports in a section without data.
4. The remaining flags of `load_mode`, where the loaders give them a meaning (`rtld_global`,
   `rtld_deepbind`: which library a symbol is found in).
