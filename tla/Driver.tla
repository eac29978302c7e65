------------------------------- MODULE Driver -------------------------------
(***************************************************************************)
(* main() (src/main.c) and the files it writes: its arguments one by one,  *)
(* then assembler() with its debug report, the binary, the hex dump, the   *)
(* object and the dependency file, in that order, each at a path that is   *)
(* named or made from another.                                             *)
(*                                                                         *)
(* A path is a directory and a name, a name its pieces between the dots.   *)
(* A file is what was written to it last; what the assembler makes of the  *)
(* input is a constant.  Of the failures only fopen's are looked at by     *)
(* this code, and the dependency file's fclose, so any write may be cut    *)
(* short without anybody noticing.                                         *)
(***************************************************************************)
EXTENDS Integers, SequencesExt

CONSTANTS
  CommandLines,  (* argv without the program's name                         *)
  Sources,       (* the paths at which there is something to read           *)
  Present,       (* the paths at which there is a file, sources included    *)
  Verdicts,      (* what assembler() may make of the input                  *)
  NULL           (* no path, or no status yet                               *)

Plain(word) == [dir |-> "", name |-> <<word>>]
Obj     == Plain("--obj")
Depfile == Plain("--depfile")
Flags   == {Obj, Depfile}

(* Any piece of a name may be empty.                                       *)
Path == [dir : STRING, name : Seq(STRING) \ {<< >>}]

(* "unreadable" fopen fails; "empty" no token; "rejected" the lexer or the *)
(* parser ends the process; "refused" codeGen ends it; "no_code" only data *)
(* or collected sections; "code".                                          *)
ASSUME DriverAssumption ==
  /\ CommandLines \subseteq Seq(Path)
  /\ NULL \notin Path \union {0, 1}
  /\ Verdicts \subseteq {"unreadable", "empty", "rejected", "refused", "no_code", "code"}
  /\ Sources \subseteq Present

VARIABLES
  argv, verdict,                          (* given                          *)
  i, hexdump_path, obj_path, depfile_path,
  files,                                  (* what is at each path           *)
  at,                                     (* where main is                  *)
  status                                  (* the exit status                *)

paths == <<hexdump_path, obj_path, depfile_path>>
vars == <<argv, verdict, i, paths, files, at, status>>

Content(what) == [what |-> what, whole |-> TRUE]
Absent == Content("nothing")
FileAt(p) == IF p \in DOMAIN files THEN files[p] ELSE Absent

Init ==
  /\ argv \in CommandLines
  /\ verdict \in Verdicts
  /\ argv # << >> /\ verdict # "unreadable" => argv[1] \in Sources
  /\ i = 3
  /\ hexdump_path = NULL /\ obj_path = NULL /\ depfile_path = NULL
  /\ files = [p \in Present |-> Content(IF p \in Sources THEN "source" ELSE "old")]
  /\ at = "args"
  /\ status = NULL

input_path  == argv[1]
output_path == argv[2]

Exit(code) == at' = "exit" /\ status' = code
Go(place)  == at' = place /\ UNCHANGED status

---------------------------------------------------------------------------
(* The arguments.                                                          *)

Usage ==
  /\ at = "args" /\ Len(argv) < 2
  /\ Exit(1)
  /\ UNCHANGED <<argv, verdict, i, paths, files>>

AtArgument == at = "args" /\ Len(argv) >= 2 /\ i <= Len(argv)

(* Fault: the loop is left to step over the flag and its path.             *)
FaultTakeObj ==
  /\ AtArgument /\ argv[i] = Obj /\ i < Len(argv)
  /\ obj_path' = argv[i + 1]
  /\ UNCHANGED <<argv, verdict, i, hexdump_path, depfile_path, files, at, status>>

(* A flag takes the next argument, whatever it is.                         *)
TakeObj ==
  /\ AtArgument /\ argv[i] = Obj /\ i < Len(argv)
  /\ obj_path' = argv[i + 1]
  /\ i' = i + 2
  /\ UNCHANGED <<argv, verdict, hexdump_path, depfile_path, files, at, status>>

(* Fault: the path after the flag is looked at again.                      *)
FaultTakeDepfile ==
  /\ AtArgument /\ argv[i] = Depfile /\ i < Len(argv)
  /\ depfile_path' = argv[i + 1]
  /\ i' = i + 1
  /\ UNCHANGED <<argv, verdict, hexdump_path, obj_path, files, at, status>>

TakeDepfile ==
  /\ AtArgument /\ argv[i] = Depfile /\ i < Len(argv)
  /\ depfile_path' = argv[i + 1]
  /\ i' = i + 2
  /\ UNCHANGED <<argv, verdict, hexdump_path, obj_path, files, at, status>>

(* Fault: steps over an argument more, as the flags do.                    *)
FaultTakeHexdump ==
  /\ AtArgument /\ argv[i] \notin Flags /\ hexdump_path = NULL
  /\ hexdump_path' = argv[i]
  /\ i' = i + 2
  /\ UNCHANGED <<argv, verdict, obj_path, depfile_path, files, at, status>>

TakeHexdump ==
  /\ AtArgument /\ argv[i] \notin Flags /\ hexdump_path = NULL
  /\ hexdump_path' = argv[i]
  /\ i' = i + 1
  /\ UNCHANGED <<argv, verdict, obj_path, depfile_path, files, at, status>>

(* A flag at the end, or a path too many.                                  *)
BadArgument ==
  /\ AtArgument
  /\ \/ argv[i] \in Flags /\ i = Len(argv)
     \/ argv[i] \notin Flags /\ hexdump_path # NULL
  /\ Exit(1)
  /\ UNCHANGED <<argv, verdict, i, paths, files>>

EndOfArguments ==
  /\ at = "args" /\ Len(argv) >= 2 /\ i > Len(argv)
  /\ Go("assembler")
  /\ UNCHANGED <<argv, verdict, i, paths, files>>

---------------------------------------------------------------------------
(* Paths made from paths.                                                  *)

Stem(name) == IF Len(name) > 1 THEN Front(name) ELSE name
WithSuffix(stem, suffix) == Append(Front(stem), Last(stem) \o suffix)

(* <directory of the output><stem of the input>_asm.txt, as are all paths  *)
(* without the limit of a buffer.                                          *)
ReportPath ==
  [dir |-> output_path.dir,
   name |-> Append(WithSuffix(Stem(input_path.name), "_asm"), "txt")]

(* Fault: the dump takes the input's name.                                 *)
FaultDumpPath ==
  IF hexdump_path # NULL /\ hexdump_path # Plain("") THEN hexdump_path
  ELSE [dir |-> input_path.dir, name |-> input_path.name]

(* The path given, or <directory of the output><its stem, or "output">.txt *)
DumpPath ==
  IF hexdump_path # NULL /\ hexdump_path # Plain("") THEN hexdump_path
  ELSE LET stem == Stem(output_path.name)
       IN  [dir |-> output_path.dir,
            name |-> Append(IF stem = <<"">> THEN <<"output">> ELSE stem, "txt")]

(* fopen for writing, and what is written, whole or cut short.             *)
Written(p, what) ==
  \E whole \in BOOLEAN :
    files' = [q \in DOMAIN files \union {p} |->
                IF q = p THEN [what |-> what, whole |-> whole] ELSE files[q]]

---------------------------------------------------------------------------
(* assembler().                                                            *)

ReadInput ==
  /\ at = "assembler" /\ verdict \notin {"unreadable", "rejected"}
  /\ Go(IF verdict = "empty" THEN "output" ELSE "report")
  /\ UNCHANGED <<argv, verdict, i, paths, files>>

RejectInput ==
  /\ at = "assembler" /\ verdict \in {"unreadable", "rejected"}
  /\ Exit(1)
  /\ UNCHANGED <<argv, verdict, i, paths, files>>

(* write_debug_report returns when it cannot open its file.                *)
WriteReport ==
  /\ at = "report"
  /\ Written(ReportPath, "report") \/ UNCHANGED files
  /\ Go("codegen")
  /\ UNCHANGED <<argv, verdict, i, paths>>

CodeGen ==
  /\ at = "codegen"
  /\ IF verdict = "refused" THEN Exit(1) ELSE Go("output")
  /\ UNCHANGED <<argv, verdict, i, paths, files>>

---------------------------------------------------------------------------
(* The outputs.                                                            *)

(* Fault: the binary is opened before the program is assembled.            *)
FaultWriteOutput ==
  /\ at \in {"assembler", "output"}
  /\ Written(output_path, "binary")
  /\ IF at = "output" THEN Go("dump") ELSE UNCHANGED <<at, status>>
  /\ UNCHANGED <<argv, verdict, i, paths>>

WriteOutput ==
  /\ at = "output"
  /\ Written(output_path, "binary")
  /\ Go("dump")
  /\ UNCHANGED <<argv, verdict, i, paths>>

CannotOpenOutput ==
  /\ at = "output"
  /\ Exit(1)
  /\ UNCHANGED <<argv, verdict, i, paths, files>>

WriteDump ==
  /\ at = "dump"
  /\ IF verdict = "code" THEN Written(DumpPath, "dump") \/ UNCHANGED files
                         ELSE UNCHANGED files
  /\ Go("object")
  /\ UNCHANGED <<argv, verdict, i, paths>>

WriteObject ==
  /\ at = "object"
  /\ IF obj_path # NULL THEN Written(obj_path, "object") \/ UNCHANGED files
                        ELSE UNCHANGED files
  /\ Go("depfile")
  /\ UNCHANGED <<argv, verdict, i, paths>>

(* Fault: the dependency file's result is not looked at.                   *)
FaultStatusZero ==
  /\ at = "depfile"
  /\ (depfile_path # NULL /\ Written(depfile_path, "manifest")) \/ UNCHANGED files
  /\ Exit(0)
  /\ UNCHANGED <<argv, verdict, i, paths>>

(* write_dependency_file (DepFile) fails before it has opened the file, or *)
(* writes to it.  Its result is that of fclose alone, so it goes with a    *)
(* whole file as well as with one that is cut short.                       *)
WriteDepfile ==
  /\ at = "depfile"
  /\ \/ depfile_path = NULL /\ UNCHANGED files /\ Exit(0)
     \/ depfile_path # NULL /\ Written(depfile_path, "manifest")
          /\ \E code \in {0, 1} : Exit(code)
     \/ depfile_path # NULL /\ UNCHANGED files /\ Exit(1)
  /\ UNCHANGED <<argv, verdict, i, paths>>

---------------------------------------------------------------------------
ParseArguments ==
  Usage \/ TakeObj \/ TakeDepfile \/ TakeHexdump \/ BadArgument \/ EndOfArguments
Assembler == ReadInput \/ RejectInput \/ WriteReport \/ CodeGen
Outputs   == WriteOutput \/ CannotOpenOutput \/ WriteDump \/ WriteObject \/ WriteDepfile

Step == ParseArguments \/ Assembler \/ Outputs

Terminated == at = "exit" /\ UNCHANGED vars

Next == Step \/ Terminated

Spec == Init /\ [][Next]_vars

(* Nothing in the program waits.                                           *)
FairSpec == Spec /\ WF_vars(Step)
=============================================================================
