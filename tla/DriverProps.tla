---------------------------- MODULE DriverProps ----------------------------
(***************************************************************************)
(* What a build may rely on when it runs the assembler.                    *)
(***************************************************************************)
EXTENDS Driver, FiniteSets, FiniteSetsExt

Kinds == {"nothing", "source", "old", "report", "binary", "dump", "object", "manifest"}

(* The variables have their types.                                         *)
DriverTypeOK ==
  /\ i \in 3 .. Len(argv) + 1 \/ i = 3
  /\ \A p \in {hexdump_path, obj_path, depfile_path} : p = NULL \/ p \in Range(argv)
  /\ \A p \in DOMAIN files : files[p] \in [what : Kinds, whole : BOOLEAN]
  /\ at \in {"args", "assembler", "report", "codegen", "output", "dump", "object",
             "depfile", "exit"}
  /\ status \in {NULL, 0, 1}
  /\ status = NULL <=> at # "exit"

---------------------------------------------------------------------------
(* The command line, read without running over it.  An argument is taken   *)
(* by the flag before it when an odd number of flags come directly before. *)

FlagsBefore(k) ==
  Max({n \in 0 .. k - 3 : \A j \in k - n .. k - 1 : argv[j] \in Flags})
Taken(k) == FlagsBefore(k) % 2 = 1

Given(flag) == {k \in 3 .. Len(argv) : argv[k] = flag /\ ~Taken(k)}
Free == {k \in 3 .. Len(argv) : argv[k] \notin Flags /\ ~Taken(k)}

LegalLine ==
  /\ Len(argv) >= 2
  /\ Cardinality(Free) <= 1
  /\ Len(argv) \notin Given(Obj) \union Given(Depfile)

ValueOf(flag) == IF Given(flag) = {} THEN NULL ELSE argv[Max(Given(flag)) + 1]

(* Each flag's path is the argument after its last use, the hex dump's the *)
(* one argument that is left over, however flags and paths are mixed, and  *)
(* even when a path looks like a flag; nothing else is accepted.           *)
ArgumentsMean ==
  /\ at \notin {"args", "exit"} => LegalLine
  /\ at # "args" /\ LegalLine =>
       /\ obj_path = ValueOf(Obj)
       /\ depfile_path = ValueOf(Depfile)
       /\ hexdump_path = IF Free = {} THEN NULL ELSE argv[CHOOSE k \in Free : TRUE]

---------------------------------------------------------------------------
Original(p) ==
  IF p \in Sources THEN Content("source")
  ELSE IF p \in Present THEN Content("old") ELSE Absent

Changed == {p \in DOMAIN files : FileAt(p) # Original(p)}

(* A run that is refused for its arguments, its input's text or its        *)
(* program leaves the binary, the object, the dump and the dependency file *)
(* of an earlier run alone; only codeGen's errors come after the report.   *)
RejectedRunsLeaveOutputs ==
  at = "exit" =>
    /\ ~LegalLine \/ verdict \in {"unreadable", "rejected"} => Changed = {} /\ status = 1
    /\ LegalLine /\ verdict = "refused" => Changed \subseteq {ReportPath} /\ status = 1

(* The paths that are named, and whether they are told apart from each     *)
(* other and from those that are made up, which all end in .txt.           *)
Named == <<input_path, output_path, obj_path, depfile_path>>
Asked == {j \in 1 .. 4 : Named[j] # NULL}
IsText(p) == Len(p.name) > 1 /\ Last(p.name) = "txt"
PathsApart ==
  /\ \A j, k \in Asked : Named[j] = Named[k] => j = k
  /\ \A j \in Asked : ~IsText(Named[j])
  /\ hexdump_path \notin {Named[j] : j \in Asked} \union {ReportPath}

Holds(p, what) == FileAt(p).what = what

(* When the paths are told apart: exit status 0 means that the input was   *)
(* accepted, the binary was opened and written to, and so was the          *)
(* dependency file asked for.  Status 1 for an input that was accepted     *)
(* means that the binary could not be opened or that a dependency file was *)
(* asked for.  The object is there or is as it was, and the status does    *)
(* not tell; nor does it tell whether any of the files is whole.           *)
StatusTellsOutputs ==
  at = "exit" /\ LegalLine /\ PathsApart =>
    /\ status = 0 =>
         /\ verdict \in {"empty", "no_code", "code"}
         /\ Holds(output_path, "binary")
         /\ depfile_path # NULL => Holds(depfile_path, "manifest")
    /\ status = 1 /\ verdict \in {"empty", "no_code", "code"} =>
         ~Holds(output_path, "binary") \/ depfile_path # NULL
    /\ obj_path # NULL =>
         Holds(obj_path, "object") \/ FileAt(obj_path) = Original(obj_path)

(* A source that is named once and is no .txt file is never written to,    *)
(* whatever the paths made up from it and from the output come to be, as   *)
(* long as no path is cut to fit its buffer (out_path[512]) and none is a  *)
(* link.                                                                   *)
SourceSurvives ==
  Len(argv) >= 2 /\ input_path \in Sources /\ ~IsText(input_path)
    /\ input_path \notin {argv[k] : k \in 2 .. Len(argv)}
  => FileAt(input_path) = Content("source")

(* main returns or exits.                                                  *)
DriverTermination == <>(at = "exit")
===========================================================================
