------------------------------ MODULE DepFile ------------------------------
(***************************************************************************)
(* write_dependency_file() (src/assembler.c) and the list of import paths  *)
(* it gets from the parser's static variables: a process that assembles    *)
(* files and writes their dependency files, one call after another.        *)
(*                                                                         *)
(* Paths are abstract: realpath is a function of a directory and a path,   *)
(* and the tests of its result (suffix, control characters) are constants. *)
(* One step is one iteration of the loop over the import paths or one      *)
(* operation on the file.  The file is a stdio stream: fprintf's results   *)
(* are not looked at, and a flush that fails discards what was in the      *)
(* stream.  A line of the file is an entry when it is there whole.         *)
(* Running out of memory is left out, and so is the header, a first line   *)
(* that no fprintf but a later one flushes.                                *)
(***************************************************************************)
EXTENDS Integers, Sequences

CONSTANTS
  Sources,        (* the assembly files, as named in the calls              *)
  Paths,          (* the texts of import paths                              *)
  ImportLists,    (* what files import: the parser's lists, without repeats *)
  Directory,      (* where realpath finds the sources that it finds         *)
  Root, Absolute, (* paths that start with a slash are taken from Root      *)
  TooLong,        (* the <<directory, path>> that do not fit PATH_MAX       *)
  RealPath,       (* realpath of those it can resolve                       *)
  Kind,           (* "mln", "masm" or "other", by the suffix                *)
  Control,        (* resolved paths with a newline, return or tab           *)
  MaxCalls        (* bound on the calls of a process                        *)

NoSource == "none"

ASSUME DepFileAssumption ==
  /\ \A ps \in ImportLists : ps \in Seq(Paths)
  /\ DOMAIN Directory \subseteq Sources
  /\ \A d \in DOMAIN RealPath : RealPath[d] \in DOMAIN Kind
  /\ MaxCalls \in Nat
  /\ NoSource \notin Sources

VARIABLES
  g_import_paths,   (* parser.c's list, kept between calls                  *)
  last,             (* the last file assembled, and what it imports         *)
  source, i, dependencies, (* the locals of write_dependency_file           *)
  line, stream,            (* the next entry to print, those not flushed    *)
  error,                   (* the stream's error indicator                  *)
  manifest,         (* what the dependency file holds                       *)
  result,           (* what write_dependency_file returned                  *)
  at,               (* where control is                                     *)
  calls

locals == <<source, i, dependencies>>
file == <<line, stream, error>>
vars == <<g_import_paths, last, locals, file, manifest, result, at, calls>>

Init ==
  /\ g_import_paths = << >>
  /\ last = [source |-> NoSource, imports |-> << >>, empty |-> TRUE]
  /\ source = NoSource /\ i = 1 /\ dependencies = << >>
  /\ line = 1 /\ stream = << >> /\ error = FALSE
  /\ manifest = [state |-> "absent", entries |-> << >>, torn |-> FALSE]
  /\ result = "none"
  /\ at = "caller"
  /\ calls = 0

Called == at = "caller" /\ calls < MaxCalls /\ calls' = calls + 1

(* Fault: the parser leaves a list that it has filled before as it is.     *)
FaultListKept(f, ps) ==
  /\ Called
  /\ g_import_paths' = IF g_import_paths = << >> THEN ps ELSE g_import_paths
  /\ last' = [source |-> f, imports |-> ps, empty |-> FALSE]
  /\ result' = "none"
  /\ UNCHANGED <<locals, file, manifest, at>>

(* assembler(): parser() empties its lists and fills them from the file.   *)
Assemble(f, ps) ==
  /\ Called
  /\ g_import_paths' = ps
  /\ last' = [source |-> f, imports |-> ps, empty |-> FALSE]
  /\ result' = "none"
  /\ UNCHANGED <<locals, file, manifest, at>>

(* A file without a token: assembler() returns before parser().            *)
AssembleEmpty(f) ==
  /\ Called
  /\ last' = [source |-> f, imports |-> << >>, empty |-> TRUE]
  /\ result' = "none"
  /\ UNCHANGED <<g_import_paths, locals, file, manifest, at>>

---------------------------------------------------------------------------
(* write_dependency_file().                                                *)

Return(ok) == at' = "caller" /\ result' = ok

NoDirectory(f) ==
  /\ Called
  /\ f \notin DOMAIN Directory
  /\ Return("failed")
  /\ UNCHANGED <<g_import_paths, last, locals, file, manifest>>

Begin(f) ==
  /\ Called
  /\ f \in DOMAIN Directory
  /\ source' = f /\ i' = 1 /\ dependencies' = << >>
  /\ result' = "none"
  /\ at' = "paths"
  /\ UNCHANGED <<g_import_paths, last, file, manifest>>

Unresolved(f, p) == <<IF p \in Absolute THEN Root ELSE Directory[f], p>>
Canonical(f, p)  == RealPath[Unresolved(f, p)]
Dependency(f, p) == [kind |-> Kind[Canonical(f, p)], path |-> Canonical(f, p)]

(* Fault: a file of any kind will do.                                      *)
FaultAnyKind(f, p) ==
  /\ Unresolved(f, p) \notin TooLong
  /\ Unresolved(f, p) \in DOMAIN RealPath
  /\ Canonical(f, p) \notin Control

(* The tests of a path, in the order of the code.                          *)
Accepted(f, p) ==
  /\ Unresolved(f, p) \notin TooLong
  /\ Unresolved(f, p) \in DOMAIN RealPath
  /\ Kind[Canonical(f, p)] \in {"mln", "masm"}
  /\ Canonical(f, p) \notin Control

AtPath == at = "paths" /\ i <= Len(g_import_paths)

(* Every failure frees what was collected and returns 0.                   *)
RejectPath ==
  /\ AtPath /\ ~Accepted(source, g_import_paths[i])
  /\ Return("failed")
  /\ UNCHANGED <<g_import_paths, last, locals, file, manifest, calls>>

Collected == {dependencies[k].path : k \in DOMAIN dependencies}

(* Faults: a path is compared as it is written, not as it is resolved; a   *)
(* path that is there already is looked at for ever.                       *)
FaultAddPath ==
  /\ AtPath /\ Accepted(source, g_import_paths[i])
  /\ dependencies' = Append(dependencies, Dependency(source, g_import_paths[i]))
  /\ i' = i + 1
  /\ UNCHANGED <<g_import_paths, last, source, file, manifest, result, at, calls>>

FaultDuplicateAgain ==
  /\ AtPath /\ Accepted(source, g_import_paths[i])
  /\ Canonical(source, g_import_paths[i]) \notin Collected
  /\ dependencies' = Append(dependencies, Dependency(source, g_import_paths[i]))
  /\ i' = i + 1
  /\ UNCHANGED <<g_import_paths, last, source, file, manifest, result, at, calls>>

AddPath ==
  /\ AtPath /\ Accepted(source, g_import_paths[i])
  /\ dependencies' =
       IF Canonical(source, g_import_paths[i]) \in Collected THEN dependencies
       ELSE Append(dependencies, Dependency(source, g_import_paths[i]))
  /\ i' = i + 1
  /\ UNCHANGED <<g_import_paths, last, source, file, manifest, result, at, calls>>

AllPaths == at = "paths" /\ i > Len(g_import_paths)

Opened ==
  /\ manifest' = [state |-> "open", entries |-> << >>, torn |-> FALSE]
  /\ line' = 1 /\ stream' = << >> /\ error' = FALSE

(* Fault: the file is opened before the paths are looked at.               *)
FaultOpen ==
  /\ at = "paths" /\ Opened
  /\ at' = IF AllPaths THEN "open" ELSE at
  /\ UNCHANGED <<g_import_paths, last, locals, result, calls>>

(* fopen with "wb" empties the file.                                       *)
Open ==
  /\ AllPaths /\ Opened
  /\ at' = "open"
  /\ UNCHANGED <<g_import_paths, last, locals, result, calls>>

CannotOpen ==
  /\ AllPaths
  /\ Return("failed")
  /\ UNCHANGED <<g_import_paths, last, locals, file, manifest, calls>>

(* The first n of some lines reach the file; behind a torn line the first  *)
(* runs into it.                                                           *)
Reach(lines, n, state, torn) ==
  manifest' = [state   |-> state,
               entries |-> manifest.entries
                           \o SubSeq(lines, IF manifest.torn THEN 2 ELSE 1, n),
               torn    |-> torn]

(* The write behind n lines fails, at the start of a line or inside it.    *)
Fails(lines, n, state) ==
  \E torn \in BOOLEAN :
    /\ n = 0 /\ manifest.torn => torn
    /\ Reach(lines, n, state, torn)

Buffered == Append(stream, dependencies[line])

(* fprintf leaves a line in the stream, or flushes lines with or without   *)
(* it; when that fails, all that was not written is discarded.             *)
Hold == stream' = Buffered /\ UNCHANGED <<manifest, error>>

Flush ==
  \E n \in 1 .. Len(Buffered) :
    /\ Reach(Buffered, n, "open", FALSE)
    /\ stream' = SubSeq(Buffered, n + 1, Len(Buffered))
    /\ UNCHANGED error

FlushFails ==
  \E n \in 0 .. Len(Buffered) - 1 :
    Fails(Buffered, n, "open") /\ stream' = << >> /\ error' = TRUE

PrintLine ==
  /\ at = "open" /\ line <= Len(dependencies)
  /\ Hold \/ Flush \/ FlushFails
  /\ line' = line + 1
  /\ UNCHANGED <<g_import_paths, last, locals, result, at, calls>>

(* fclose flushes what is left and says whether that failed, not whether   *)
(* an earlier flush did.                                                   *)
Printed == at = "open" /\ line > Len(dependencies)

Close ==
  /\ Printed
  /\ Reach(stream, Len(stream), "closed", manifest.torn /\ stream = << >>)
  /\ stream' = << >>
  /\ Return("ok")
  /\ UNCHANGED <<g_import_paths, last, locals, line, error, calls>>

(* It may fail after everything was written.                               *)
CannotClose ==
  /\ Printed
  /\ \E n \in 0 .. Len(stream) : Fails(stream, n, "failed")
  /\ stream' = << >>
  /\ Return("failed")
  /\ UNCHANGED <<g_import_paths, last, locals, line, error, calls>>

---------------------------------------------------------------------------
Call ==
  \E f \in Sources :
    \/ \E ps \in ImportLists : Assemble(f, ps)
    \/ AssembleEmpty(f)
    \/ NoDirectory(f)
    \/ Begin(f)

WriteDependencyFile ==
  RejectPath \/ AddPath \/ Open \/ CannotOpen \/ PrintLine \/ Close \/ CannotClose

(* The caller may stop calling.                                            *)
Idle == at = "caller" /\ UNCHANGED vars

Next == Call \/ WriteDependencyFile \/ Idle

Spec == Init /\ [][Next]_vars

(* A call runs to its end; there need not be a next one.                   *)
FairSpec == Spec /\ WF_vars(WriteDependencyFile)
=============================================================================
