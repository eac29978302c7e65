---------------------------- MODULE DriverProofs ---------------------------
(***************************************************************************)
(* For every command line, file system and verdict of the assembler: the   *)
(* arguments are taken as they are meant, a refused run leaves the outputs *)
(* alone, the source is never written, and the exit status is true.        *)
(***************************************************************************)
EXTENDS DriverProps, NumberLemmas, SequenceTheorems

---------------------------------------------------------------------------
(* How the command line is read without running over it.                   *)

(* A nonempty set of numbers that none exceeds has a maximum.              *)
LEMMA MaxOf ==
  ASSUME NEW m \in Nat, NEW S \in SUBSET (0 .. m), S # {}
  PROVE  Max(S) \in S /\ \A j \in S : j <= Max(S)
<1>1. \E x \in S : \A y \in S : x >= y
  BY GreatestOf
<1>2. Max(S) \in S /\ \A y \in S : Max(S) >= y
  BY <1>1 DEF Max
<1>3. \A j \in S : Max(S) >= j => j <= Max(S)
  BY <1>2
<1> QED
  BY <1>2, <1>3

(* The maximum of a set of numbers is known by its being one.              *)
LEMMA MaxIs ==
  ASSUME NEW m \in Nat, NEW S \in SUBSET (0 .. m), NEW x \in S, \A y \in S : y <= x
  PROVE  Max(S) = x
<1>1. Max(S) \in S /\ \A j \in S : j <= Max(S)
  BY MaxOf
<1>2. Max(S) \in 0 .. m /\ x \in 0 .. m /\ x <= Max(S) /\ Max(S) <= x
  BY <1>1
<1> QED
  BY <1>2

Runs(k) == {n \in 0 .. k - 3 : \A j \in k - n .. k - 1 : argv[j] \in Flags}

(* The run of flags before an argument grows by a flag and ends with       *)
(* anything else.                                                          *)
LEMMA FlagsBeforeStep ==
  ASSUME NEW k \in Nat, k >= 3
  PROVE  /\ FlagsBefore(k) \in Nat
         /\ argv[k] \in Flags => FlagsBefore(k + 1) = FlagsBefore(k) + 1
         /\ argv[k] \notin Flags => FlagsBefore(k + 1) = 0
<1>1. \A m \in Nat : m >= 3 => Runs(m) \in SUBSET (0 .. m - 3) /\ 0 \in Runs(m)
  BY DEF Runs
<1>2. FlagsBefore(k) = Max(Runs(k)) /\ FlagsBefore(k + 1) = Max(Runs(k + 1))
  BY DEF FlagsBefore, Runs
<1>3. Max(Runs(k)) \in Runs(k) /\ \A n \in Runs(k) : n <= Max(Runs(k))
  <2>1. k - 3 \in Nat /\ Runs(k) \in SUBSET (0 .. k - 3) /\ Runs(k) # {}
    BY <1>1
  <2> QED
    BY <2>1, MaxOf
<1>4. Max(Runs(k)) \in 0 .. k - 3
  BY <1>1, <1>3
<1>5. ASSUME argv[k] \in Flags PROVE Max(Runs(k + 1)) = Max(Runs(k)) + 1
  <2> DEFINE x == Max(Runs(k)) + 1
  <2>1. x \in Runs(k + 1)
    <3>1. x \in 0 .. (k + 1) - 3
      BY <1>4
    <3>2. ASSUME NEW j \in (k + 1) - x .. (k + 1) - 1 PROVE argv[j] \in Flags
      <4>1. j = k \/ j \in k - Max(Runs(k)) .. k - 1
        BY <1>4
      <4>2. \A h \in k - Max(Runs(k)) .. k - 1 : argv[h] \in Flags
        BY <1>3 DEF Runs
      <4> QED
        BY <1>5, <4>1, <4>2
    <3> QED
      BY <3>1, <3>2 DEF Runs
  <2>2. ASSUME NEW n \in Runs(k + 1) PROVE n <= x
    <3>1. n \in 0 .. (k + 1) - 3
      BY DEF Runs
    <3>2. CASE n = 0
      BY <1>4, <3>2
    <3>3. CASE n # 0
      <4>1. n - 1 \in 0 .. k - 3
        BY <3>1, <3>3
      <4>2. ASSUME NEW j \in k - (n - 1) .. k - 1 PROVE argv[j] \in Flags
        <5>1. j \in (k + 1) - n .. (k + 1) - 1
          BY <3>1
        <5> QED
          BY <5>1 DEF Runs
      <4>3. n - 1 \in Runs(k)
        BY <4>1, <4>2 DEF Runs
      <4>4. n - 1 <= Max(Runs(k))
        BY <1>3, <4>3
      <4> QED
        BY <1>4, <3>1, <4>4
    <3> QED
      BY <3>2, <3>3
  <2>3. k + 1 \in Nat /\ k + 1 >= 3 /\ (k + 1) - 3 \in Nat
    OBVIOUS
  <2>4. Runs(k + 1) \in SUBSET (0 .. (k + 1) - 3)
    BY <1>1, <2>3
  <2> HIDE DEF x
  <2>5. Max(Runs(k + 1)) = x
    BY <2>1, <2>2, <2>3, <2>4, MaxIs
  <2> QED
    BY <2>5 DEF x
<1>6. ASSUME argv[k] \notin Flags PROVE Max(Runs(k + 1)) = 0
  <2>1. ASSUME NEW n \in Runs(k + 1) PROVE n <= 0
    <3>1. n \in 0 .. (k + 1) - 3 /\ \A j \in (k + 1) - n .. (k + 1) - 1 : argv[j] \in Flags
      BY DEF Runs
    <3> SUFFICES ASSUME n > 0 PROVE FALSE
      BY <3>1
    <3>2. k \in (k + 1) - n .. (k + 1) - 1
      BY <3>1
    <3> QED
      BY <1>6, <3>1, <3>2
  <2>2. k + 1 \in Nat /\ k + 1 >= 3 /\ (k + 1) - 3 \in Nat
    OBVIOUS
  <2>3. Runs(k + 1) \in SUBSET (0 .. (k + 1) - 3) /\ 0 \in Runs(k + 1)
    BY <1>1, <2>2
  <2> QED
    BY <2>1, <2>2, <2>3, MaxIs
<1> QED
  BY <1>2, <1>4, <1>5, <1>6

(* An argument is taken when the one before is a flag that is not taken.   *)
LEMMA TakenStep ==
  /\ ~Taken(3)
  /\ \A k \in Nat : k >= 3 => (Taken(k + 1) <=> argv[k] \in Flags /\ ~Taken(k))
<1>1. ~Taken(3)
  <2>1. FlagsBefore(3) = Max(Runs(3))
    BY DEF FlagsBefore, Runs
  <2>2. Runs(3) \in SUBSET (0 .. 0) /\ 0 \in Runs(3)
    BY DEF Runs
  <2>3. Max(Runs(3)) = 0
    BY <2>2, MaxOf
  <2> QED
    BY <2>1, <2>3 DEF Taken
<1>2. ASSUME NEW k \in Nat, k >= 3
      PROVE  Taken(k + 1) <=> argv[k] \in Flags /\ ~Taken(k)
  <2>1. FlagsBefore(k) \in Nat
    BY <1>2, FlagsBeforeStep
  <2>2. CASE argv[k] \in Flags
    <3>1. FlagsBefore(k + 1) = FlagsBefore(k) + 1
      BY <1>2, <2>2, FlagsBeforeStep
    <3>2. (FlagsBefore(k) + 1) % 2 = 1 <=> FlagsBefore(k) % 2 # 1
      BY <2>1
    <3> QED
      BY <2>2, <3>1, <3>2 DEF Taken
  <2>3. CASE argv[k] \notin Flags
    <3>1. FlagsBefore(k + 1) = 0
      BY <1>2, <2>3, FlagsBeforeStep
    <3> QED
      BY <2>3, <3>1 DEF Taken
  <2> QED
    BY <2>2, <2>3
<1> QED
  BY <1>1, <1>2
---------------------------------------------------------------------------
(* The invariant.  Up to argument n every flag has been given its path and *)
(* every free argument has been taken for the hex dump's.                  *)

GivenBelow(flag, n) == {k \in Given(flag) : k < n}
FreeBelow(n)        == {k \in Free : k < n}

ValueBelow(flag, n) ==
  IF GivenBelow(flag, n) = {} THEN NULL ELSE argv[Max(GivenBelow(flag, n)) + 1]
AnyOf(S)     == CHOOSE k \in S : TRUE
DumpBelow(n) == IF FreeBelow(n) = {} THEN NULL ELSE argv[AnyOf(FreeBelow(n))]

TakenTo(n) ==
  /\ n \in 3 .. Len(argv) + 1 /\ ~Taken(n)
  /\ obj_path = ValueBelow(Obj, n) /\ depfile_path = ValueBelow(Depfile, n)
  /\ hexdump_path = DumpBelow(n)
  /\ \A j, k \in FreeBelow(n) : j = k
  /\ \A k \in GivenBelow(Obj, n) \union GivenBelow(Depfile, n) : k + 1 < n

(* All of them have been, and none is left.                                *)
AllTaken ==
  /\ LegalLine
  /\ obj_path = ValueOf(Obj) /\ depfile_path = ValueOf(Depfile)
  /\ hexdump_path = IF Free = {} THEN NULL ELSE argv[AnyOf(Free)]

Places == {"args", "assembler", "report", "codegen", "output", "dump", "object",
           "depfile", "exit"}

Given1 == argv \in CommandLines /\ verdict \in Verdicts /\ at \in Places

ArgumentsSoFar ==
  /\ at = "args" =>
       /\ Len(argv) < 2 => i = 3
       /\ Len(argv) >= 2 => TakenTo(i)
  /\ at \notin {"args", "exit"} => AllTaken
  /\ at = "exit" => AllTaken \/ ~LegalLine

Untouched == files = [p \in Present |-> Content(IF p \in Sources THEN "source" ELSE "old")]

OutputsSoFar ==
  /\ at \in {"args", "assembler", "report"} => Untouched
  /\ at \in {"report", "codegen"} => verdict \in {"refused", "no_code", "code"}
  /\ at = "codegen" => Changed \subseteq {ReportPath}
  /\ at \in {"output", "dump", "object", "depfile"} => verdict \in {"empty", "no_code", "code"}
  /\ at = "exit" =>
       /\ ~LegalLine \/ verdict \in {"unreadable", "rejected"} => Untouched /\ status = 1
       /\ LegalLine /\ verdict = "refused" => Changed \subseteq {ReportPath} /\ status = 1

(* The paths that are used are arguments behind the input's.               *)
PathsAreArguments ==
  \A p \in {hexdump_path, obj_path, depfile_path} :
    p # NULL => \E k \in 3 .. Len(argv) : p = argv[k]

DriverInv == Given1 /\ ArgumentsSoFar /\ OutputsSoFar /\ PathsAreArguments /\ SourceSurvives

---------------------------------------------------------------------------
(* What one argument changes.                                              *)

LEMMA FlagsDiffer == Obj # Depfile /\ Flags = {Obj, Depfile}
  BY DEF Obj, Depfile, Plain, Flags

LEMMA ArgumentsType ==
  ASSUME argv \in CommandLines
  PROVE  /\ argv \in Seq(Path) /\ Len(argv) \in Nat
         /\ \A k \in 1 .. Len(argv) : argv[k] \in Path /\ argv[k] # NULL
<1>1. argv \in Seq(Path) /\ NULL \notin Path
  BY DriverAssumption
<1> QED
  BY <1>1

(* The argument at n is a flag that is given, when nothing takes it: the   *)
(* next is taken and the one behind that is not.                           *)
LEMMA FlagStep ==
  ASSUME argv \in CommandLines, NEW n \in 3 .. Len(argv), ~Taken(n), n < Len(argv),
         NEW flag \in Flags, argv[n] = flag
  PROVE  /\ ~Taken(n + 2)
         /\ GivenBelow(flag, n + 2) = GivenBelow(flag, n) \union {n}
         /\ \A other \in Flags \ {flag} : GivenBelow(other, n + 2) = GivenBelow(other, n)
         /\ FreeBelow(n + 2) = FreeBelow(n)
<1>1. Len(argv) \in Nat
  BY ArgumentsType
<1>2. Taken(n + 1) /\ ~Taken(n + 2)
  <2>1. n \in Nat /\ n >= 3 /\ n + 1 \in Nat /\ n + 1 >= 3 /\ (n + 1) + 1 = n + 2
    BY <1>1
  <2>2. Taken(n + 1)
    BY <2>1, TakenStep
  <2>3. ~Taken((n + 1) + 1)
    BY <2>1, <2>2, TakenStep
  <2> QED
    BY <2>1, <2>2, <2>3
<1>3. \A k \in 3 .. Len(argv) : k < n + 2 => k < n \/ k = n \/ k = n + 1
  BY <1>1
<1>4. \A k \in 3 .. Len(argv) : k < n => k < n + 2
  BY <1>1
<1>5. n \in 3 .. Len(argv) /\ n < n + 2
  BY <1>1
<1>6. GivenBelow(flag, n + 2) = GivenBelow(flag, n) \union {n}
  <2>1. n \in Given(flag)
    BY DEF Given
  <2>2. \A k \in Given(flag) : k \in 3 .. Len(argv) /\ ~Taken(k)
    BY DEF Given
  <2> QED
    BY <1>2, <1>3, <1>4, <1>5, <2>1, <2>2, Zenon DEF GivenBelow
<1>7. ASSUME NEW other \in Flags \ {flag}
      PROVE  GivenBelow(other, n + 2) = GivenBelow(other, n)
  <2>1. n \notin Given(other)
    BY DEF Given
  <2>2. \A k \in Given(other) : k \in 3 .. Len(argv) /\ ~Taken(k)
    BY DEF Given
  <2> QED
    BY <1>2, <1>3, <1>4, <2>1, <2>2, Zenon DEF GivenBelow
<1>8. FreeBelow(n + 2) = FreeBelow(n)
  <2>1. n \notin Free
    BY DEF Free
  <2>2. \A k \in Free : k \in 3 .. Len(argv) /\ ~Taken(k)
    BY DEF Free
  <2> QED
    BY <1>2, <1>3, <1>4, <2>1, <2>2, Zenon DEF FreeBelow
<1> QED
  BY <1>2, <1>6, <1>7, <1>8

(* The argument at n is free, when nothing takes it.                       *)
LEMMA FreeStep ==
  ASSUME argv \in CommandLines, NEW n \in 3 .. Len(argv), ~Taken(n), argv[n] \notin Flags
  PROVE  /\ ~Taken(n + 1)
         /\ \A flag \in Flags : GivenBelow(flag, n + 1) = GivenBelow(flag, n)
         /\ FreeBelow(n + 1) = FreeBelow(n) \union {n}
<1>1. Len(argv) \in Nat
  BY ArgumentsType
<1>2. ~Taken(n + 1)
  <2>1. n \in Nat /\ n >= 3
    BY <1>1
  <2> QED
    BY <2>1, TakenStep
<1>3. \A k \in 3 .. Len(argv) : k < n + 1 <=> k < n \/ k = n
  BY <1>1
<1>4. ASSUME NEW flag \in Flags PROVE GivenBelow(flag, n + 1) = GivenBelow(flag, n)
  <2>1. n \notin Given(flag) /\ \A k \in Given(flag) : k \in 3 .. Len(argv)
    BY DEF Given
  <2> QED
    BY <1>3, <2>1, Zenon DEF GivenBelow
<1>5. FreeBelow(n + 1) = FreeBelow(n) \union {n}
  <2>1. n \in Free /\ \A k \in Free : k \in 3 .. Len(argv)
    BY DEF Free
  <2> QED
    BY <1>3, <2>1, Zenon DEF FreeBelow
<1> QED
  BY <1>2, <1>4, <1>5

(* The last of a flag's uses below n + 2 is the one at n.                  *)
LEMMA NewestValue ==
  ASSUME argv \in CommandLines, NEW n \in 3 .. Len(argv), NEW flag,
         GivenBelow(flag, n + 2) = GivenBelow(flag, n) \union {n}
  PROVE  ValueBelow(flag, n + 2) = argv[n + 1]
<1>1. Len(argv) \in Nat
  BY ArgumentsType
<1>2. \A k \in GivenBelow(flag, n) : k \in 3 .. Len(argv) /\ k < n
  BY DEF GivenBelow, Given
<1>3. /\ n \in Nat /\ n \in GivenBelow(flag, n + 2)
      /\ GivenBelow(flag, n + 2) \in SUBSET (0 .. n)
      /\ \A y \in GivenBelow(flag, n + 2) : y <= n
  BY <1>1, <1>2
<1>4. Max(GivenBelow(flag, n + 2)) = n
  BY <1>3, MaxIs
<1> QED
  BY <1>3, <1>4 DEF ValueBelow

(* Two free arguments are too many, and so is a flag without a path.       *)
LEMMA TooManyFree ==
  ASSUME argv \in CommandLines, NEW j \in Free, NEW k \in Free, j # k
  PROVE  ~LegalLine
<1>1. Len(argv) \in Nat
  BY ArgumentsType
<1>2. IsFiniteSet(Free)
  <2>1. IsFiniteSet(3 .. Len(argv)) /\ Free \subseteq 3 .. Len(argv)
    BY <1>1, FS_Interval DEF Free
  <2> QED
    BY <2>1, FS_Subset
<1>3. Cardinality(Free) # 0
  BY <1>2, FS_EmptySet
<1>4. Cardinality(Free) # 1
  BY <1>2, FS_Singleton
<1>5. Cardinality(Free) \in Nat
  BY <1>2, FS_CardinalityType
<1>6. ~(Cardinality(Free) <= 1)
  BY <1>3, <1>4, <1>5
<1> QED
  BY <1>6 DEF LegalLine

LEMMA AtMostOneFree ==
  ASSUME argv \in CommandLines, \A j, k \in Free : j = k
  PROVE  Cardinality(Free) <= 1
<1>1. CASE Free = {}
  BY <1>1, FS_EmptySet
<1>2. CASE Free # {}
  <2>1. PICK k \in Free : TRUE
    BY <1>2
  <2>2. Free = {k}
    BY <2>1
  <2> QED
    BY <2>2, FS_Singleton
<1> QED
  BY <1>1, <1>2

---------------------------------------------------------------------------
(* The steps over the arguments.                                           *)

LEMMA CommandLineKept ==
  ASSUME argv' = argv
  PROVE  /\ LegalLine' <=> LegalLine
         /\ ValueOf(Obj)' = ValueOf(Obj) /\ ValueOf(Depfile)' = ValueOf(Depfile)
         /\ Free' = Free
         /\ \A n : /\ Taken(n)' <=> Taken(n)
                   /\ GivenBelow(Obj, n)' = GivenBelow(Obj, n)
                   /\ GivenBelow(Depfile, n)' = GivenBelow(Depfile, n)
                   /\ ValueBelow(Obj, n)' = ValueBelow(Obj, n)
                   /\ ValueBelow(Depfile, n)' = ValueBelow(Depfile, n)
                   /\ FreeBelow(n)' = FreeBelow(n)
                   /\ DumpBelow(n)' = DumpBelow(n)
<1>1. \A n : FlagsBefore(n)' = FlagsBefore(n)
  BY DEF FlagsBefore
<1>2. \A n : Taken(n)' <=> Taken(n)
  BY <1>1 DEF Taken
<1>3. Given(Obj)' = Given(Obj) /\ Given(Depfile)' = Given(Depfile) /\ Free' = Free
  BY <1>2 DEF Given, Free
<1>4. \A n : /\ GivenBelow(Obj, n)' = GivenBelow(Obj, n)
             /\ GivenBelow(Depfile, n)' = GivenBelow(Depfile, n)
             /\ FreeBelow(n)' = FreeBelow(n)
  BY <1>3 DEF GivenBelow, FreeBelow
<1>5. \A n : /\ ValueBelow(Obj, n)' = ValueBelow(Obj, n)
             /\ ValueBelow(Depfile, n)' = ValueBelow(Depfile, n)
  BY <1>4 DEF ValueBelow
<1>6. \A n : DumpBelow(n)' = DumpBelow(n)
  BY <1>4 DEF DumpBelow
<1>7. LegalLine' <=> LegalLine
  BY <1>3 DEF LegalLine
<1>8. ValueOf(Obj)' = ValueOf(Obj) /\ ValueOf(Depfile)' = ValueOf(Depfile)
  BY <1>3 DEF ValueOf
<1> QED
  BY <1>2, <1>3, <1>4, <1>5, <1>6, <1>7, <1>8

(* Before the first argument nothing has been taken.                       *)
LEMMA NothingTaken ==
  ASSUME argv \in CommandLines, Len(argv) >= 2,
         obj_path = NULL, depfile_path = NULL, hexdump_path = NULL
  PROVE  TakenTo(3)
<1>1. Len(argv) \in Nat
  BY ArgumentsType
<1>2. GivenBelow(Obj, 3) = {} /\ GivenBelow(Depfile, 3) = {} /\ FreeBelow(3) = {}
  <2>1. \A k \in 3 .. Len(argv) : ~(k < 3)
    BY <1>1
  <2> QED
    BY <2>1, Zenon DEF GivenBelow, FreeBelow, Given, Free
<1> QED
  BY <1>1, <1>2, TakenStep DEF TakenTo, ValueBelow, DumpBelow

LEMMA TakeObjTakes ==
  ASSUME argv \in CommandLines, NEW n, i = n, Len(argv) >= 2, TakenTo(n), TakeObj
  PROVE  TakenTo(n + 2)'
<1>1. /\ n <= Len(argv) /\ argv[n] = Obj /\ n < Len(argv) /\ obj_path' = argv[n + 1]
      /\ argv' = argv /\ hexdump_path' = hexdump_path /\ depfile_path' = depfile_path
  BY DEF TakeObj, AtArgument
<1>2. Len(argv) \in Nat /\ n \in 3 .. Len(argv) + 1 /\ ~Taken(n)
  BY ArgumentsType DEF TakenTo
<1>3. n \in 3 .. Len(argv) /\ n + 2 \in 3 .. Len(argv) + 1
  BY <1>1, <1>2
<1>4. Obj \in Flags /\ Depfile \in Flags \ {Obj}
  BY FlagsDiffer
<1>5. /\ ~Taken(n + 2)
      /\ GivenBelow(Obj, n + 2) = GivenBelow(Obj, n) \union {n}
      /\ GivenBelow(Depfile, n + 2) = GivenBelow(Depfile, n)
      /\ FreeBelow(n + 2) = FreeBelow(n)
  BY <1>1, <1>2, <1>3, <1>4, FlagStep
<1>6. ValueBelow(Obj, n + 2) = argv[n + 1]
  BY <1>3, <1>5, NewestValue
<1>7. ValueBelow(Depfile, n + 2) = ValueBelow(Depfile, n) /\ DumpBelow(n + 2) = DumpBelow(n)
  BY <1>5 DEF ValueBelow, DumpBelow
<1>8. \A k \in GivenBelow(Obj, n + 2) \union GivenBelow(Depfile, n + 2) : k + 1 < n + 2
  <2>1. \A k \in GivenBelow(Obj, n) \union GivenBelow(Depfile, n) : k \in Nat /\ k < n
    BY <1>2 DEF GivenBelow, Given
  <2>2. \A k \in Nat : k < n => k + 1 < n + 2
    BY <1>2
  <2>3. n + 1 < n + 2
    BY <1>2
  <2> QED
    BY <1>5, <2>1, <2>2, <2>3
<1>9. \A j, k \in FreeBelow(n + 2) : j = k
  BY <1>5 DEF TakenTo
<1>10. depfile_path = ValueBelow(Depfile, n) /\ hexdump_path = DumpBelow(n)
  BY DEF TakenTo
<1> QED
  BY <1>1, <1>3, <1>5, <1>6, <1>7, <1>8, <1>9, <1>10, CommandLineKept DEF TakenTo

LEMMA TakeDepfileTakes ==
  ASSUME argv \in CommandLines, NEW n, i = n, Len(argv) >= 2, TakenTo(n), TakeDepfile
  PROVE  TakenTo(n + 2)'
<1>1. /\ n <= Len(argv) /\ argv[n] = Depfile /\ n < Len(argv) /\ depfile_path' = argv[n + 1]
      /\ argv' = argv /\ hexdump_path' = hexdump_path /\ obj_path' = obj_path
  BY DEF TakeDepfile, AtArgument
<1>2. Len(argv) \in Nat /\ n \in 3 .. Len(argv) + 1 /\ ~Taken(n)
  BY ArgumentsType DEF TakenTo
<1>3. n \in 3 .. Len(argv) /\ n + 2 \in 3 .. Len(argv) + 1
  BY <1>1, <1>2
<1>4. Depfile \in Flags /\ Obj \in Flags \ {Depfile}
  BY FlagsDiffer
<1>5. /\ ~Taken(n + 2)
      /\ GivenBelow(Depfile, n + 2) = GivenBelow(Depfile, n) \union {n}
      /\ GivenBelow(Obj, n + 2) = GivenBelow(Obj, n)
      /\ FreeBelow(n + 2) = FreeBelow(n)
  BY <1>1, <1>2, <1>3, <1>4, FlagStep
<1>6. ValueBelow(Depfile, n + 2) = argv[n + 1]
  BY <1>3, <1>5, NewestValue
<1>7. ValueBelow(Obj, n + 2) = ValueBelow(Obj, n) /\ DumpBelow(n + 2) = DumpBelow(n)
  BY <1>5 DEF ValueBelow, DumpBelow
<1>8. \A k \in GivenBelow(Obj, n + 2) \union GivenBelow(Depfile, n + 2) : k + 1 < n + 2
  <2>1. \A k \in GivenBelow(Obj, n) \union GivenBelow(Depfile, n) : k \in Nat /\ k < n
    BY <1>2 DEF GivenBelow, Given
  <2>2. \A k \in Nat : k < n => k + 1 < n + 2
    BY <1>2
  <2>3. n + 1 < n + 2
    BY <1>2
  <2> QED
    BY <1>5, <2>1, <2>2, <2>3
<1>9. \A j, k \in FreeBelow(n + 2) : j = k
  BY <1>5 DEF TakenTo
<1>10. obj_path = ValueBelow(Obj, n) /\ hexdump_path = DumpBelow(n)
  BY DEF TakenTo
<1> QED
  BY <1>1, <1>3, <1>5, <1>6, <1>7, <1>8, <1>9, <1>10, CommandLineKept DEF TakenTo

(* The hex dump's path is free only while no argument has been taken for   *)
(* it, for no argument is NULL.                                            *)
LEMMA DumpTells ==
  ASSUME argv \in CommandLines, NEW n, TakenTo(n)
  PROVE  hexdump_path = NULL <=> FreeBelow(n) = {}
<1>1. ASSUME FreeBelow(n) # {} PROVE hexdump_path # NULL
  <2> DEFINE k == AnyOf(FreeBelow(n))
  <2>1. k \in FreeBelow(n)
    BY <1>1 DEF AnyOf
  <2>2. k \in 1 .. Len(argv)
    BY <2>1, ArgumentsType DEF FreeBelow, Free
  <2>3. argv[k] # NULL
    BY <2>2, ArgumentsType
  <2> QED
    BY <1>1, <2>3 DEF TakenTo, DumpBelow
<1>2. FreeBelow(n) = {} => hexdump_path = NULL
  BY DEF TakenTo, DumpBelow
<1> QED
  BY <1>1, <1>2

LEMMA TakeHexdumpTakes ==
  ASSUME argv \in CommandLines, NEW n, i = n, Len(argv) >= 2, TakenTo(n), TakeHexdump
  PROVE  TakenTo(n + 1)'
<1>1. /\ n <= Len(argv) /\ argv[n] \notin Flags /\ hexdump_path = NULL
      /\ hexdump_path' = argv[n] /\ argv' = argv
      /\ obj_path' = obj_path /\ depfile_path' = depfile_path
  BY DEF TakeHexdump, AtArgument
<1>2. Len(argv) \in Nat /\ n \in 3 .. Len(argv) + 1 /\ ~Taken(n)
  BY ArgumentsType DEF TakenTo
<1>3. n \in 3 .. Len(argv) /\ n + 1 \in 3 .. Len(argv) + 1
  BY <1>1, <1>2
<1>4. Obj \in Flags /\ Depfile \in Flags
  BY FlagsDiffer
<1>5. /\ ~Taken(n + 1)
      /\ GivenBelow(Obj, n + 1) = GivenBelow(Obj, n)
      /\ GivenBelow(Depfile, n + 1) = GivenBelow(Depfile, n)
      /\ FreeBelow(n + 1) = FreeBelow(n) \union {n}
  BY <1>1, <1>2, <1>3, <1>4, FreeStep
<1>6. FreeBelow(n + 1) = {n}
  <2>1. FreeBelow(n) = {}
    BY <1>1, DumpTells
  <2> QED
    BY <1>5, <2>1
<1>7. DumpBelow(n + 1) = argv[n]
  BY <1>6 DEF DumpBelow, AnyOf
<1>8. ValueBelow(Obj, n + 1) = ValueBelow(Obj, n)
      /\ ValueBelow(Depfile, n + 1) = ValueBelow(Depfile, n)
  BY <1>5 DEF ValueBelow
<1>9. \A k \in GivenBelow(Obj, n + 1) \union GivenBelow(Depfile, n + 1) : k + 1 < n + 1
  <2>1. \A k \in GivenBelow(Obj, n) \union GivenBelow(Depfile, n) : k \in Nat /\ k < n
    BY <1>2 DEF GivenBelow, Given
  <2>2. \A k \in Nat : k < n => k + 1 < n + 1
    BY <1>2
  <2> QED
    BY <1>5, <2>1, <2>2
<1>10. obj_path = ValueBelow(Obj, n) /\ depfile_path = ValueBelow(Depfile, n)
  BY DEF TakenTo
<1> QED
  BY <1>1, <1>3, <1>5, <1>6, <1>7, <1>8, <1>9, <1>10, CommandLineKept DEF TakenTo

(* An argument that cannot be taken belongs to a line that is not legal.   *)
LEMMA BadIsIllegal ==
  ASSUME argv \in CommandLines, NEW n, i = n, Len(argv) >= 2, TakenTo(n), BadArgument
  PROVE  ~LegalLine
<1>1. Len(argv) \in Nat /\ n \in 3 .. Len(argv) /\ ~Taken(n)
  BY ArgumentsType DEF TakenTo, BadArgument, AtArgument
<1>2. CASE argv[n] \in Flags /\ n = Len(argv)
  <2>1. n \in Given(Obj) \union Given(Depfile)
    BY <1>1, <1>2, FlagsDiffer DEF Given
  <2> QED
    BY <1>2, <2>1 DEF LegalLine
<1>3. CASE argv[n] \notin Flags /\ hexdump_path # NULL
  <2>1. n \in Free
    BY <1>1, <1>3 DEF Free
  <2>2. PICK k \in FreeBelow(n) : TRUE
    BY <1>3, DumpTells
  <2>3. k \in Free /\ k # n
    BY <1>1, <2>2 DEF FreeBelow, Free
  <2> QED
    BY <2>1, <2>3, TooManyFree
<1> QED
  BY <1>2, <1>3 DEF BadArgument

(* At the end of the arguments all have been taken.                        *)
LEMMA EndTakesAll ==
  ASSUME argv \in CommandLines, NEW n, i = n, Len(argv) >= 2, TakenTo(n), n > Len(argv)
  PROVE  AllTaken
<1>1. Len(argv) \in Nat /\ n = Len(argv) + 1
  BY ArgumentsType DEF TakenTo
<1>2. \A k \in 3 .. Len(argv) : k < n
  BY <1>1
<1>3. /\ GivenBelow(Obj, n) = Given(Obj) /\ GivenBelow(Depfile, n) = Given(Depfile)
      /\ FreeBelow(n) = Free
  BY <1>2, Zenon DEF GivenBelow, FreeBelow, Given, Free
<1>4. LegalLine
  <2>1. Cardinality(Free) <= 1
    BY <1>3, AtMostOneFree DEF TakenTo
  <2>2. Len(argv) \notin Given(Obj) \union Given(Depfile)
    <3>1. \A k \in Given(Obj) \union Given(Depfile) : k + 1 < n
      BY <1>3 DEF TakenTo
    <3>2. ~(Len(argv) + 1 < n)
      BY <1>1
    <3> QED
      BY <3>1, <3>2
  <2> QED
    BY <2>1, <2>2 DEF LegalLine
<1> QED
  BY <1>3, <1>4 DEF AllTaken, TakenTo, ValueBelow, ValueOf, DumpBelow

---------------------------------------------------------------------------
(* What a step that writes may change.                                     *)

LEMMA FilesKept ==
  ASSUME argv' = argv, files' = files
  PROVE  /\ Untouched' <=> Untouched
         /\ Changed' = Changed /\ ReportPath' = ReportPath
         /\ SourceSurvives' <=> SourceSurvives
<1>1. \A p : FileAt(p)' = FileAt(p)
  BY DEF FileAt
<1>2. Changed' = Changed
  BY <1>1 DEF Changed
<1> QED
  BY <1>1, <1>2 DEF Untouched, ReportPath, input_path, output_path, SourceSurvives

LEMMA PathsKept ==
  ASSUME argv' = argv, paths' = paths
  PROVE  (AllTaken' <=> AllTaken) /\ (PathsAreArguments' <=> PathsAreArguments)
<1>1. hexdump_path' = hexdump_path /\ obj_path' = obj_path /\ depfile_path' = depfile_path
  BY DEF paths
<1> QED
  BY <1>1, CommandLineKept DEF AllTaken, PathsAreArguments

(* Only the file that is opened changes.                                   *)
LEMMA WrittenAt ==
  ASSUME NEW p, NEW what, Written(p, what), NEW q, q # p
  PROVE  FileAt(q)' = FileAt(q)
<1>1. PICK whole \in BOOLEAN :
        files' = [r \in DOMAIN files \union {p} |->
                    IF r = p THEN [what |-> what, whole |-> whole] ELSE files[r]]
  BY DEF Written
<1>2. DOMAIN files' = DOMAIN files \union {p}
  BY <1>1
<1>3. q \in DOMAIN files => files'[q] = files[q]
  BY <1>1
<1> QED
  BY <1>2, <1>3 DEF FileAt

LEMMA SourceKept ==
  ASSUME argv' = argv, SourceSurvives, NEW p, NEW what, Written(p, what),
         IsText(p) \/ \E k \in 2 .. Len(argv) : p = argv[k]
  PROVE  SourceSurvives'
<1> SUFFICES ASSUME Len(argv) >= 2, input_path \in Sources, ~IsText(input_path),
                    input_path \notin {argv[k] : k \in 2 .. Len(argv)}
             PROVE  FileAt(input_path)' = Content("source")
  BY DEF SourceSurvives, input_path
<1>1. input_path # p
  OBVIOUS
<1>2. \A q : q # p => FileAt(q)' = FileAt(q)
  BY WrittenAt
<1>3. FileAt(argv[1])' = FileAt(argv[1])
  BY <1>1, <1>2 DEF input_path
<1>4. FileAt(input_path)' = FileAt(argv[1])'
  BY DEF FileAt, input_path
<1> QED
  BY <1>3, <1>4 DEF SourceSurvives, input_path

LEMMA UntouchedIsUnchanged ==
  ASSUME Untouched
  PROVE  Changed = {} /\ \A p : FileAt(p) = Original(p)
<1>1. DOMAIN files = Present /\ Sources \subseteq Present
  BY DriverAssumption DEF Untouched
<1>2. \A p \in Present : files[p] = Content(IF p \in Sources THEN "source" ELSE "old")
  BY DEF Untouched
<1>3. \A p : FileAt(p) = Original(p)
  BY <1>1, <1>2 DEF FileAt, Original
<1> QED
  BY <1>3 DEF Changed

---------------------------------------------------------------------------
(* The paths that are made up are text.                                    *)

LEMMA AppendedText ==
  ASSUME NEW T, NEW s \in Seq(T), s # << >>, NEW d, NEW p,
         p = [dir |-> d, name |-> Append(s, "txt")]
  PROVE  IsText(p)
<1> DEFINE U == T \union {"txt"}
<1>1. s \in Seq(U) /\ "txt" \in U /\ Len(s) \in Nat /\ Len(s) > 0
  OBVIOUS
<1>2. p.name = Append(s, "txt")
  OBVIOUS
<1>3. Len(Append(s, "txt")) = Len(s) + 1 /\ Append(s, "txt")[Len(s) + 1] = "txt"
  BY <1>1, AppendProperties
<1> QED
  BY <1>1, <1>2, <1>3 DEF IsText, Last

LEMMA StemType ==
  ASSUME NEW name \in Seq(STRING) \ {<< >>}
  PROVE  Stem(name) \in Seq(STRING) \ {<< >>} /\ Front(Stem(name)) \in Seq(STRING)
<1>1. ASSUME NEW s \in Seq(STRING) \ {<< >>}
      PROVE  /\ Len(s) \in Nat /\ Len(s) >= 1
             /\ Front(s) \in Seq(STRING) /\ Len(Front(s)) = Len(s) - 1
  <2>1. Len(s) \in Nat /\ Len(s) >= 1
    OBVIOUS
  <2> DEFINE n == Len(s) - 1
  <2>2. n \in Int /\ n >= 0 /\ (n - 1) + 1 = n
    <3>1. \A l \in Nat : l >= 1 => l - 1 \in Int /\ l - 1 >= 0 /\ ((l - 1) - 1) + 1 = l - 1
      OBVIOUS
    <3> QED
      BY <2>1, <3>1
  <2>3. \A j \in 1 .. n : s[j] \in STRING
    BY <2>1
  <2> HIDE DEF n
  <2>4. SubSeq(s, 1, n) \in Seq(STRING) /\ Len(SubSeq(s, 1, n)) = n
    BY <2>2, <2>3, SubSeqProperties
  <2> QED
    BY <2>1, <2>4 DEF Front, n
<1>2. Stem(name) \in Seq(STRING) \ {<< >>}
  <2>1. CASE Len(name) > 1
    <3>1. Front(name) \in Seq(STRING) /\ Len(Front(name)) # 0
      BY <1>1, <2>1
    <3> QED
      BY <2>1, <3>1 DEF Stem
  <2>2. CASE ~(Len(name) > 1)
    BY <2>2 DEF Stem
  <2> QED
    BY <2>1, <2>2
<1> QED
  BY <1>1, <1>2

LEMMA ReportIsText ==
  ASSUME argv \in CommandLines, Len(argv) >= 2
  PROVE  IsText(ReportPath)
<1> DEFINE f == Front(Stem(input_path.name))
           e == Last(Stem(input_path.name)) \o "_asm"
           T == STRING \union {e}
<1>1. input_path \in Path
  BY ArgumentsType DEF input_path
<1>2. f \in Seq(STRING)
  BY <1>1, StemType DEF Path
<1> HIDE DEF e
<1>3. f \in Seq(T) /\ e \in T
  BY <1>2
<1> HIDE DEF f, T
<1>4. Append(f, e) \in Seq(T) /\ Append(f, e) # << >>
  BY <1>3, AppendProperties
<1>5. ReportPath = [dir |-> output_path.dir, name |-> Append(Append(f, e), "txt")]
  BY DEF ReportPath, WithSuffix, f, e
<1> QED
  BY <1>4, <1>5, AppendedText

LEMMA DumpIsTextOrGiven ==
  ASSUME argv \in CommandLines, Len(argv) >= 2
  PROVE  IsText(DumpPath) \/ (DumpPath = hexdump_path /\ hexdump_path # NULL)
<1> DEFINE made == ~(hexdump_path # NULL /\ hexdump_path # Plain(""))
<1>1. CASE ~made
  BY <1>1 DEF DumpPath
<1>2. CASE made
  <2> DEFINE stem == Stem(output_path.name)
             s == IF stem = <<"">> THEN <<"output">> ELSE stem
             T == STRING \union {"output"}
  <2>1. output_path \in Path
    BY ArgumentsType DEF output_path
  <2>2. stem \in Seq(STRING) \ {<< >>}
    BY <2>1, StemType DEF Path
  <2>3. DumpPath = [dir |-> output_path.dir, name |-> Append(s, "txt")]
    BY <1>2 DEF DumpPath
  <2> HIDE DEF stem
  <2>4. stem \in Seq(T) /\ stem # << >>
    BY <2>2
  <2>5. <<"output">> \in Seq(T) /\ <<"output">> # << >>
    OBVIOUS
  <2>6. s \in Seq(T) /\ s # << >>
    BY <2>4, <2>5
  <2> HIDE DEF s
  <2> QED
    BY <2>3, <2>6, AppendedText
<1> QED
  BY <1>1, <1>2

---------------------------------------------------------------------------
(* The invariant holds in the initial states and every step keeps it.      *)

LEMMA InitHolds ==
  ASSUME Init
  PROVE  DriverInv
<1>1. /\ argv \in CommandLines /\ verdict \in Verdicts /\ i = 3 /\ at = "args"
      /\ hexdump_path = NULL /\ obj_path = NULL /\ depfile_path = NULL /\ Untouched
  BY DEF Init, Untouched
<1>2. Given1
  BY <1>1 DEF Given1, Places
<1>3. ArgumentsSoFar
  BY <1>1, NothingTaken DEF ArgumentsSoFar
<1>4. OutputsSoFar
  BY <1>1 DEF OutputsSoFar
<1>5. PathsAreArguments
  BY <1>1 DEF PathsAreArguments
<1>6. SourceSurvives
  BY <1>1, UntouchedIsUnchanged DEF SourceSurvives, Original
<1> QED
  BY <1>2, <1>3, <1>4, <1>5, <1>6 DEF DriverInv

(* A flag or a path is taken: nothing but the paths changes.               *)
LEMMA TakeKeeps ==
  ASSUME DriverInv, TakeObj \/ TakeDepfile \/ TakeHexdump
  PROVE  DriverInv'
<1>1. /\ at = "args" /\ at' = at /\ Len(argv) >= 2 /\ i <= Len(argv)
      /\ argv' = argv /\ verdict' = verdict /\ files' = files /\ status' = status
  BY DEF TakeObj, TakeDepfile, TakeHexdump, AtArgument
<1>2. argv \in CommandLines /\ TakenTo(i) /\ PathsAreArguments /\ Untouched
  BY <1>1 DEF DriverInv, Given1, ArgumentsSoFar, OutputsSoFar
<1>3. Len(argv) \in Nat /\ i \in 3 .. Len(argv)
  BY <1>1, <1>2, ArgumentsType DEF TakenTo
<1>4. TakenTo(i)' /\ PathsAreArguments'
  <2>1. PICK n \in 3 .. Len(argv) : n = i
    BY <1>3
  <2>2. n + 1 \in 3 .. Len(argv) + 1 /\ (n < Len(argv) => n + 1 \in 3 .. Len(argv))
    BY <1>3
  <2>3. CASE TakeObj
    <3>1. i' = n + 2 /\ TakenTo(n + 2)'
      BY <1>1, <1>2, <2>1, <2>3, TakeObjTakes DEF TakeObj
    <3>2. /\ obj_path' = argv[n + 1] /\ n < Len(argv)
          /\ hexdump_path' = hexdump_path /\ depfile_path' = depfile_path
      BY <2>1, <2>3 DEF TakeObj
    <3>3. PathsAreArguments'
      BY <1>1, <1>2, <2>2, <3>2 DEF PathsAreArguments
    <3> QED
      BY <3>1, <3>3 DEF TakenTo
  <2>4. CASE TakeDepfile
    <3>1. i' = n + 2 /\ TakenTo(n + 2)'
      BY <1>1, <1>2, <2>1, <2>4, TakeDepfileTakes DEF TakeDepfile
    <3>2. /\ depfile_path' = argv[n + 1] /\ n < Len(argv)
          /\ hexdump_path' = hexdump_path /\ obj_path' = obj_path
      BY <2>1, <2>4 DEF TakeDepfile
    <3>3. PathsAreArguments'
      BY <1>1, <1>2, <2>2, <3>2 DEF PathsAreArguments
    <3> QED
      BY <3>1, <3>3 DEF TakenTo
  <2>5. CASE TakeHexdump
    <3>1. i' = n + 1 /\ TakenTo(n + 1)'
      BY <1>1, <1>2, <2>1, <2>5, TakeHexdumpTakes DEF TakeHexdump
    <3>2. /\ hexdump_path' = argv[n]
          /\ obj_path' = obj_path /\ depfile_path' = depfile_path
      BY <2>1, <2>5 DEF TakeHexdump
    <3>3. PathsAreArguments'
      BY <1>1, <1>2, <2>1, <3>2 DEF PathsAreArguments
    <3> QED
      BY <3>1, <3>3 DEF TakenTo
  <2> QED
    BY <2>3, <2>4, <2>5
<1>5. Given1'
  BY <1>1 DEF DriverInv, Given1
<1>6. ArgumentsSoFar'
  BY <1>1, <1>3, <1>4 DEF ArgumentsSoFar
<1>7. OutputsSoFar'
  BY <1>1, <1>2, FilesKept DEF OutputsSoFar
<1>8. SourceSurvives'
  BY <1>1, FilesKept DEF DriverInv
<1> QED
  BY <1>4, <1>5, <1>6, <1>7, <1>8 DEF DriverInv

(* The arguments end, or end the run.                                      *)
LEMMA ArgumentsEnd ==
  ASSUME DriverInv, Usage \/ BadArgument \/ EndOfArguments
  PROVE  DriverInv'
<1>1. /\ at = "args" /\ argv' = argv /\ verdict' = verdict /\ files' = files
      /\ paths' = paths
  BY DEF Usage, BadArgument, EndOfArguments, AtArgument
<1>2. argv \in CommandLines /\ Len(argv) \in Nat /\ Untouched
      /\ (Len(argv) >= 2 => TakenTo(i))
  BY <1>1, ArgumentsType DEF DriverInv, Given1, ArgumentsSoFar, OutputsSoFar
<1>3. (at' = "exit" /\ status' = 1 /\ ~LegalLine) \/ (at' = "assembler" /\ AllTaken)
  <2>1. CASE Usage
    BY <1>2, <2>1 DEF Usage, Exit, LegalLine
  <2>2. CASE BadArgument
    <3>1. ~LegalLine
      BY <1>2, <2>2, BadIsIllegal DEF BadArgument, AtArgument
    <3> QED
      BY <2>2, <3>1 DEF BadArgument, Exit
  <2>3. CASE EndOfArguments
    <3>1. AllTaken
      BY <1>2, <2>3, EndTakesAll DEF EndOfArguments
    <3> QED
      BY <2>3, <3>1 DEF EndOfArguments, Go
  <2> QED
    BY <2>1, <2>2, <2>3
<1>4. Given1'
  BY <1>1, <1>3 DEF DriverInv, Given1, Places
<1>5. ArgumentsSoFar'
  BY <1>1, <1>3, CommandLineKept, PathsKept DEF ArgumentsSoFar
<1>6. OutputsSoFar'
  BY <1>1, <1>2, <1>3, FilesKept, CommandLineKept DEF OutputsSoFar
<1>7. PathsAreArguments' /\ SourceSurvives'
  BY <1>1, FilesKept, PathsKept DEF DriverInv
<1> QED
  BY <1>4, <1>5, <1>6, <1>7 DEF DriverInv

(* Past the arguments they stay as they were read.                         *)
LEMMA ReadArgumentsStay ==
  ASSUME DriverInv, argv' = argv, verdict' = verdict, paths' = paths,
         at \notin {"args", "exit"}, at' \in Places \ {"args"}
  PROVE  Given1' /\ ArgumentsSoFar' /\ PathsAreArguments' /\ LegalLine
<1>1. AllTaken /\ PathsAreArguments
  BY DEF DriverInv, ArgumentsSoFar
<1>2. AllTaken' /\ PathsAreArguments'
  BY <1>1, PathsKept
<1> QED
  BY <1>1, <1>2 DEF DriverInv, Given1, ArgumentsSoFar, AllTaken

LEMMA ReadOrReject ==
  ASSUME DriverInv, ReadInput \/ RejectInput \/ CodeGen
  PROVE  DriverInv'
<1>1. /\ at \in {"assembler", "codegen"} /\ argv' = argv /\ verdict' = verdict
      /\ files' = files /\ paths' = paths
  BY DEF ReadInput, RejectInput, CodeGen
<1>2. at' \in {"output", "report", "exit"}
  BY DEF ReadInput, RejectInput, CodeGen, Exit, Go
<1>3. Given1' /\ ArgumentsSoFar' /\ PathsAreArguments' /\ LegalLine
  BY <1>1, <1>2, ReadArgumentsStay DEF Places
<1>4. OutputsSoFar'
  <2>1. /\ verdict \in {"unreadable", "empty", "rejected", "refused", "no_code", "code"}
        /\ OutputsSoFar
    BY DriverAssumption DEF DriverInv, Given1
  <2>2. CASE ReadInput
    <3>1. at = "assembler" /\ verdict \notin {"unreadable", "rejected"}
          /\ at' = IF verdict = "empty" THEN "output" ELSE "report"
      BY <2>2 DEF ReadInput, Go
    <3>2. Untouched'
      BY <1>1, <2>1, <3>1, FilesKept DEF OutputsSoFar
    <3> QED
      BY <1>1, <2>1, <3>1, <3>2 DEF OutputsSoFar
  <2>3. CASE RejectInput
    <3>1. at = "assembler" /\ verdict \in {"unreadable", "rejected"}
          /\ at' = "exit" /\ status' = 1
      BY <2>3 DEF RejectInput, Exit
    <3>2. Untouched'
      BY <1>1, <2>1, <3>1, FilesKept DEF OutputsSoFar
    <3> QED
      BY <1>1, <3>1, <3>2 DEF OutputsSoFar
  <2>4. CASE CodeGen
    <3>1. /\ at = "codegen"
          /\ \/ verdict = "refused" /\ at' = "exit" /\ status' = 1
             \/ verdict # "refused" /\ at' = "output"
      BY <2>4 DEF CodeGen, Exit, Go
    <3>2. Changed' \subseteq {ReportPath'}
      BY <1>1, <2>1, <3>1, FilesKept DEF OutputsSoFar
    <3>3. verdict' \in {"refused", "no_code", "code"} /\ LegalLine'
      BY <1>1, <1>3, <2>1, <3>1, CommandLineKept DEF OutputsSoFar
    <3> QED
      BY <1>1, <3>1, <3>2, <3>3 DEF OutputsSoFar
  <2> QED
    BY <2>2, <2>3, <2>4
<1>5. SourceSurvives'
  BY <1>1, FilesKept DEF DriverInv
<1> QED
  BY <1>3, <1>4, <1>5 DEF DriverInv

LEMMA ReportKeeps ==
  ASSUME DriverInv, WriteReport
  PROVE  DriverInv'
<1>1. /\ at = "report" /\ at' = "codegen" /\ argv' = argv /\ verdict' = verdict
      /\ paths' = paths /\ (Written(ReportPath, "report") \/ files' = files)
  BY DEF WriteReport, Go
<1>2. argv \in CommandLines /\ OutputsSoFar /\ Untouched /\ SourceSurvives
  BY <1>1 DEF DriverInv, Given1, OutputsSoFar
<1>3. Given1' /\ ArgumentsSoFar' /\ PathsAreArguments' /\ LegalLine
  BY <1>1, ReadArgumentsStay DEF Places
<1>4. IsText(ReportPath)
  BY <1>2, <1>3, ReportIsText DEF LegalLine
<1>5. Changed' \subseteq {ReportPath'}
  <2>1. CASE Written(ReportPath, "report")
    <3>1. \A q : q # ReportPath => FileAt(q)' = FileAt(q)
      BY <2>1, WrittenAt
    <3>2. \A q : FileAt(q) = Original(q)
      BY <1>2, UntouchedIsUnchanged
    <3>3. ReportPath' = ReportPath
      BY <1>1 DEF ReportPath, input_path, output_path
    <3>4. ASSUME NEW q \in Changed' PROVE q = ReportPath
      <4>1. FileAt(q)' # Original(q)
        BY DEF Changed, Original
      <4> QED
        BY <3>1, <3>2, <4>1
    <3> QED
      BY <3>3, <3>4
  <2>2. CASE files' = files
    BY <1>1, <1>2, <2>2, FilesKept, UntouchedIsUnchanged
  <2> QED
    BY <1>1, <2>1, <2>2
<1>6. OutputsSoFar'
  <2>1. verdict' \in {"refused", "no_code", "code"}
    BY <1>1, <1>2 DEF OutputsSoFar
  <2> QED
    BY <1>1, <1>5, <2>1 DEF OutputsSoFar
<1>7. SourceSurvives'
  <2>1. CASE Written(ReportPath, "report")
    BY <1>1, <1>2, <1>4, <2>1, SourceKept
  <2>2. CASE files' = files
    BY <1>1, <1>2, <2>2, FilesKept
  <2> QED
    BY <1>1, <2>1, <2>2
<1> QED
  BY <1>3, <1>6, <1>7 DEF DriverInv

(* What the outputs are written to is an argument behind the input, or     *)
(* made up.                                                                *)
LEMMA OutputsKeep ==
  ASSUME DriverInv, Outputs
  PROVE  DriverInv'
<1>1. /\ at \in {"output", "dump", "object", "depfile"} /\ argv' = argv
      /\ verdict' = verdict /\ paths' = paths
  BY DEF Outputs, WriteOutput, CannotOpenOutput, WriteDump, WriteObject, WriteDepfile
<1>2. at' \in {"dump", "object", "depfile", "exit"}
  BY DEF Outputs, WriteOutput, CannotOpenOutput, WriteDump, WriteObject, WriteDepfile, Exit, Go
<1>3. argv \in CommandLines /\ OutputsSoFar /\ PathsAreArguments /\ SourceSurvives
  BY DEF DriverInv, Given1
<1>4. Given1' /\ ArgumentsSoFar' /\ PathsAreArguments' /\ LegalLine
  BY <1>1, <1>2, ReadArgumentsStay DEF Places
<1>5. OutputsSoFar'
  <2>1. verdict' \in {"empty", "no_code", "code"} /\ LegalLine'
    BY <1>1, <1>3, <1>4, CommandLineKept DEF OutputsSoFar
  <2> QED
    BY <1>2, <2>1 DEF OutputsSoFar
<1>6. Len(argv) >= 2 /\ Len(argv) \in Nat
  BY <1>3, <1>4, ArgumentsType DEF LegalLine
<1>7. \/ files' = files
      \/ \E p, what : /\ Written(p, what)
                      /\ IsText(p) \/ \E k \in 2 .. Len(argv) : p = argv[k]
  <2>1. \A k \in 3 .. Len(argv) : k \in 2 .. Len(argv)
    OBVIOUS
  <2>2. \A p \in {hexdump_path, obj_path, depfile_path} :
          p # NULL => \E k \in 2 .. Len(argv) : p = argv[k]
    BY <1>3, <2>1 DEF PathsAreArguments
  <2>3. CASE WriteOutput
    <3>1. Written(argv[2], "binary") /\ 2 \in 2 .. Len(argv)
      BY <1>6, <2>3 DEF WriteOutput, output_path
    <3> QED
      BY <3>1
  <2>4. CASE CannotOpenOutput
    BY <2>4 DEF CannotOpenOutput
  <2>5. CASE WriteDump
    <3>1. Written(DumpPath, "dump") \/ files' = files
      BY <2>5 DEF WriteDump
    <3> QED
      BY <1>3, <1>6, <2>2, <3>1, DumpIsTextOrGiven
  <2>6. CASE WriteObject
    <3>1. (obj_path # NULL /\ Written(obj_path, "object")) \/ files' = files
      BY <2>6 DEF WriteObject
    <3> QED
      BY <2>2, <3>1
  <2>7. CASE WriteDepfile
    <3>1. (depfile_path # NULL /\ Written(depfile_path, "manifest")) \/ files' = files
      BY <2>7 DEF WriteDepfile
    <3> QED
      BY <2>2, <3>1
  <2> QED
    BY <2>3, <2>4, <2>5, <2>6, <2>7 DEF Outputs
<1>8. SourceSurvives'
  <2>1. CASE files' = files
    BY <1>1, <1>3, <2>1, FilesKept
  <2>2. CASE \E p, what : /\ Written(p, what)
                          /\ IsText(p) \/ \E k \in 2 .. Len(argv) : p = argv[k]
    BY <1>1, <1>3, <2>2, SourceKept
  <2> QED
    BY <1>7, <2>1, <2>2
<1> QED
  BY <1>4, <1>5, <1>8 DEF DriverInv

(* A step that changes nothing.                                            *)
LEMMA StutterKeeps ==
  ASSUME DriverInv, UNCHANGED vars
  PROVE  DriverInv'
<1>1. /\ argv' = argv /\ verdict' = verdict /\ i' = i /\ paths' = paths /\ files' = files
      /\ at' = at /\ status' = status
  BY DEF vars
<1>2. hexdump_path' = hexdump_path /\ obj_path' = obj_path /\ depfile_path' = depfile_path
  BY <1>1 DEF paths
<1>3. Given1' /\ PathsAreArguments' /\ SourceSurvives'
  BY <1>1, FilesKept, PathsKept DEF DriverInv, Given1
<1>4. TakenTo(i)' <=> TakenTo(i)
  <2>1. PICK n : n = i
    OBVIOUS
  <2>2. TakenTo(n)' <=> TakenTo(n)
    BY <1>1, <1>2, CommandLineKept DEF TakenTo
  <2>3. TakenTo(i)' <=> TakenTo(n)'
    BY <1>1, <2>1 DEF TakenTo
  <2> QED
    BY <2>1, <2>2, <2>3
<1>5. ArgumentsSoFar'
  BY <1>1, <1>4, CommandLineKept, PathsKept DEF DriverInv, ArgumentsSoFar
<1>6. OutputsSoFar'
  BY <1>1, FilesKept, CommandLineKept DEF DriverInv, OutputsSoFar
<1> QED
  BY <1>3, <1>5, <1>6 DEF DriverInv

---------------------------------------------------------------------------
(* Whatever the command line, the files and the input: the arguments are   *)
(* read as far as i, and the files are as they are meant to be until then. *)
THEOREM DriverInvariant == Spec => []DriverInv
<1>1. Init => DriverInv
  BY InitHolds
<1>2. DriverInv /\ [Next]_vars => DriverInv'
  <2> SUFFICES ASSUME DriverInv, [Next]_vars PROVE DriverInv'
    OBVIOUS
  <2>1. CASE ParseArguments
    BY <2>1, TakeKeeps, ArgumentsEnd DEF ParseArguments
  <2>2. CASE Assembler
    BY <2>2, ReadOrReject, ReportKeeps DEF Assembler
  <2>3. CASE Outputs
    BY <2>3, OutputsKeep
  <2>4. CASE Terminated \/ UNCHANGED vars
    BY <2>4, StutterKeeps DEF Terminated
  <2> QED
    BY <2>1, <2>2, <2>3, <2>4 DEF Next, Step
<1> QED
  BY <1>1, <1>2, PTL DEF Spec

(* The variables of main and the files keep their types.                   *)
THEOREM DriverTypes == Spec => []DriverTypeOK
<1> DEFINE Typed == DriverTypeOK /\ argv \in CommandLines
<1>1. Init => Typed
  <2> SUFFICES ASSUME Init PROVE Typed
    OBVIOUS
  <2>1. /\ i = 3 /\ argv \in CommandLines /\ at = "args" /\ status = NULL
        /\ hexdump_path = NULL /\ obj_path = NULL /\ depfile_path = NULL
    BY DEF Init
  <2>2. \A p \in DOMAIN files : files[p] \in [what : Kinds, whole : BOOLEAN]
    BY DEF Init, Content, Kinds
  <2> QED
    BY <2>1, <2>2 DEF DriverTypeOK
<1>2. Typed /\ [Next]_vars => Typed'
  <2> SUFFICES ASSUME Typed, [Next]_vars PROVE Typed'
    OBVIOUS
  <2>1. /\ argv \in Seq(Path) /\ Len(argv) \in Nat
        /\ \A k \in 1 .. Len(argv) : argv[k] \in Range(argv)
    BY ArgumentsType DEF Range
  <2>2. NULL \notin {0, 1}
    BY DriverAssumption
  <2>3. CASE ParseArguments
    <3>1. argv' = argv /\ files' = files /\ Range(argv') = Range(argv)
      BY <2>3 DEF ParseArguments, Usage, TakeObj, TakeDepfile, TakeHexdump, BadArgument,
                  EndOfArguments
    <3>2. i' \in 3 .. Len(argv) + 1 \/ i' = 3
      BY <2>1, <2>3 DEF ParseArguments, Usage, TakeObj, TakeDepfile, TakeHexdump, BadArgument,
                        EndOfArguments, AtArgument, DriverTypeOK
    <3>3. \A p \in {hexdump_path', obj_path', depfile_path'} : p = NULL \/ p \in Range(argv)
      BY <2>1, <2>3 DEF ParseArguments, Usage, TakeObj, TakeDepfile, TakeHexdump, BadArgument,
                        EndOfArguments, AtArgument, DriverTypeOK, paths
    <3>4. /\ at' \in {"args", "assembler", "exit"} /\ status' \in {NULL, 0, 1}
          /\ status' = NULL <=> at' # "exit"
      BY <2>2, <2>3 DEF ParseArguments, Usage, TakeObj, TakeDepfile, TakeHexdump, BadArgument,
                        EndOfArguments, AtArgument, DriverTypeOK, Exit, Go
    <3> QED
      BY <3>1, <3>2, <3>3, <3>4 DEF DriverTypeOK
  <2>4. CASE Assembler \/ Outputs
    <3>1. argv' = argv /\ i' = i /\ paths' = paths
      BY <2>4 DEF Assembler, Outputs, ReadInput, RejectInput, WriteReport, CodeGen,
                  WriteOutput, CannotOpenOutput, WriteDump, WriteObject, WriteDepfile
    <3>2. hexdump_path' = hexdump_path /\ obj_path' = obj_path /\ depfile_path' = depfile_path
      BY <3>1 DEF paths
    <3>3. files' = files \/ \E p : \E what \in Kinds : Written(p, what)
      BY <2>4 DEF Assembler, Outputs, ReadInput, RejectInput, WriteReport, CodeGen,
                  WriteOutput, CannotOpenOutput, WriteDump, WriteObject, WriteDepfile, Kinds
    <3>4. \A p \in DOMAIN files' : files'[p] \in [what : Kinds, whole : BOOLEAN]
      <4>1. CASE files' = files
        BY <4>1 DEF DriverTypeOK
      <4>2. ASSUME NEW p, NEW what \in Kinds, Written(p, what)
            PROVE  \A q \in DOMAIN files' : files'[q] \in [what : Kinds, whole : BOOLEAN]
        BY <4>2 DEF Written, DriverTypeOK
      <4> QED
        BY <3>3, <4>1, <4>2
    <3>5. \/ at' = "exit" /\ status' \in {0, 1}
          \/ at # "exit" /\ at' \in Places \ {"exit"} /\ status' = status
      BY <2>4 DEF Assembler, Outputs, ReadInput, RejectInput, WriteReport, CodeGen,
                  WriteOutput, CannotOpenOutput, WriteDump, WriteObject, WriteDepfile,
                  Exit, Go, Places
    <3>6. /\ at' \in Places /\ status' \in {NULL, 0, 1}
          /\ status' = NULL <=> at' # "exit"
      BY <2>2, <3>5 DEF DriverTypeOK, Places
    <3> QED
      BY <3>1, <3>2, <3>4, <3>6 DEF DriverTypeOK, Places
  <2>5. CASE Terminated \/ UNCHANGED vars
    BY <2>5 DEF Terminated, vars, paths, DriverTypeOK
  <2> QED
    BY <2>3, <2>4, <2>5 DEF Next, Step
<1>3. Typed => DriverTypeOK
  OBVIOUS
<1> QED
  BY <1>1, <1>2, <1>3, PTL DEF Spec

(* main's loop over argv gives every flag its path, the hex dump the       *)
(* argument that is left over, and lets nothing else through.              *)
THEOREM ArgumentsAreMeant == Spec => []ArgumentsMean
<1>1. DriverInv => ArgumentsMean
  BY DEF DriverInv, ArgumentsSoFar, ArgumentsMean, AllTaken, AnyOf
<1> QED
  BY <1>1, DriverInvariant, PTL

(* A run that main or the assembler refuses leaves the outputs of an       *)
(* earlier run alone.                                                      *)
THEOREM RefusedRunsAreHarmless == Spec => []RejectedRunsLeaveOutputs
<1>1. DriverInv => RejectedRunsLeaveOutputs
  BY UntouchedIsUnchanged DEF DriverInv, OutputsSoFar, RejectedRunsLeaveOutputs
<1> QED
  BY <1>1, DriverInvariant, PTL

(* No run writes to its source, whatever the paths made up from it are.    *)
THEOREM SourceIsNeverWritten == Spec => []SourceSurvives
<1>1. DriverInv => SourceSurvives
  BY DEF DriverInv
<1> QED
  BY <1>1, DriverInvariant, PTL

---------------------------------------------------------------------------
(* What the exit status tells.  Where main is tells which of the outputs   *)
(* asked for have been written and which are as they were.                 *)

OutputsAre(out, obj, dep) ==
  /\ at \in {"assembler", "report", "codegen", "output"} => FileAt(out) = Original(out)
  /\ at \in {"dump", "object", "depfile"} => FileAt(out).what = "binary"
  /\ obj # NULL =>
       /\ at \notin {"depfile", "exit"} => FileAt(obj) = Original(obj)
       /\ FileAt(obj).what = "object" \/ FileAt(obj) = Original(obj)
  /\ dep # NULL /\ at # "exit" => FileAt(dep) = Original(dep)
  /\ at = "exit" /\ status = 0 =>
       /\ verdict \in {"empty", "no_code", "code"}
       /\ FileAt(out).what = "binary"
       /\ dep # NULL => FileAt(dep).what = "manifest"
  /\ at = "exit" /\ status = 1 /\ verdict \in {"empty", "no_code", "code"} =>
       FileAt(out).what # "binary" \/ dep # NULL

OutputsThere ==
  at # "args" /\ LegalLine /\ PathsApart => OutputsAre(output_path, obj_path, depfile_path)

(* An earlier file is none of the outputs.                                 *)
LEMMA OriginalWhat ==
  \A p : Original(p).what \notin {"binary", "object", "manifest"}
  BY DEF Original, Content, Absent

(* The outputs asked for are apart from each other and from what is made   *)
(* up.                                                                     *)
LEMMA OutputsApart ==
  ASSUME argv \in CommandLines, Len(argv) >= 2, PathsApart,
         NEW out, NEW obj, NEW dep,
         out = output_path, obj = obj_path, dep = depfile_path
  PROVE  /\ obj # NULL => obj # out
         /\ dep # NULL => dep # out
         /\ obj # NULL /\ dep # NULL => obj # dep
         /\ \A p \in {out, obj, dep} : p # NULL => p # ReportPath /\ p # DumpPath
         /\ out # NULL
<1>1. /\ Named[2] = out /\ Named[3] = obj /\ Named[4] = dep
  BY DEF Named
<1>2. out # NULL
  BY ArgumentsType DEF output_path
<1>3. 2 \in Asked /\ (obj # NULL => 3 \in Asked) /\ (dep # NULL => 4 \in Asked)
  BY <1>1, <1>2 DEF Asked
<1>4. \A j, k \in Asked : Named[j] = Named[k] => j = k
  BY DEF PathsApart
<1>5. \A j \in Asked : ~IsText(Named[j]) /\ Named[j] # hexdump_path
  BY DEF PathsApart
<1>6. \A p \in {out, obj, dep} : p # NULL => ~IsText(p) /\ p # hexdump_path
  BY <1>1, <1>3, <1>5
<1>7. \A p \in {out, obj, dep} : p # NULL => p # ReportPath /\ p # DumpPath
  BY <1>6, ReportIsText, DumpIsTextOrGiven
<1> QED
  BY <1>1, <1>2, <1>3, <1>4, <1>7

(* Nothing has been written at the end of the arguments.                   *)
LEMMA OutputsAtFirst ==
  ASSUME DriverInv, EndOfArguments
  PROVE  \A out, obj, dep : OutputsAre(out, obj, dep)'
<1>1. at = "args" /\ at' = "assembler" /\ argv' = argv /\ files' = files
  BY DEF EndOfArguments, Go
<1>2. \A p : FileAt(p) = Original(p)
  BY <1>1, UntouchedIsUnchanged DEF DriverInv, OutputsSoFar
<1>3. \A p : FileAt(p)' = FileAt(p)
  BY <1>1 DEF FileAt
<1> QED
  BY <1>1, <1>2, <1>3 DEF OutputsAre

(* A step of the assembler or of the outputs.                              *)
LEMMA OutputsNext ==
  ASSUME DriverInv, LegalLine, PathsApart,
         NEW out, NEW obj, NEW dep, out = output_path, obj = obj_path, dep = depfile_path,
         OutputsAre(out, obj, dep), Assembler \/ Outputs
  PROVE  OutputsAre(out, obj, dep)'
<1>1. argv \in CommandLines /\ Len(argv) >= 2 /\ OutputsSoFar
  BY DEF DriverInv, Given1, LegalLine
<1>2. /\ obj # NULL => obj # out
      /\ dep # NULL => dep # out
      /\ obj # NULL /\ dep # NULL => obj # dep
      /\ \A p \in {out, obj, dep} : p # NULL => p # ReportPath /\ p # DumpPath
      /\ out # NULL
  BY <1>1, OutputsApart
<1>3. files' = files => \A p : FileAt(p)' = FileAt(p)
  BY DEF FileAt
<1>4. \A p, what : Written(p, what) =>
        /\ \A q : q # p => FileAt(q)' = FileAt(q)
        /\ FileAt(p)'.what = what
        /\ files'[p] = FileAt(p)'
  <2> SUFFICES ASSUME NEW p, NEW what, Written(p, what)
               PROVE  /\ \A q : q # p => FileAt(q)' = FileAt(q)
                      /\ FileAt(p)'.what = what
                      /\ files'[p] = FileAt(p)'
    OBVIOUS
  <2>1. PICK whole \in BOOLEAN :
          files' = [q \in DOMAIN files \union {p} |->
                      IF q = p THEN [what |-> what, whole |-> whole] ELSE files[q]]
    BY DEF Written
  <2>2. p \in DOMAIN files' /\ files'[p] = [what |-> what, whole |-> whole]
    BY <2>1
  <2>3. FileAt(p)' = files'[p]
    BY <2>2 DEF FileAt
  <2> QED
    BY <2>2, <2>3, WrittenAt
<1>5. CASE ReadInput
  BY <1>3, <1>5 DEF ReadInput, Go, OutputsAre
<1>6. CASE RejectInput
  BY <1>3, <1>6 DEF RejectInput, Exit, OutputsAre
<1>7. CASE WriteReport
  <2>1. at = "report" /\ at' = "codegen"
    BY <1>7 DEF WriteReport, Go
  <2>2. \A p \in {out, obj, dep} : p # NULL => FileAt(p)' = FileAt(p)
    BY <1>2, <1>3, <1>4, <1>7 DEF WriteReport
  <2> QED
    BY <1>2, <2>1, <2>2 DEF OutputsAre
<1>8. CASE CodeGen
  <2>1. at = "codegen" /\ verdict' = verdict /\ files' = files
        /\ ((verdict = "refused" /\ at' = "exit" /\ status' = 1) \/ at' = "output")
    BY <1>8 DEF CodeGen, Exit, Go
  <2> QED
    BY <1>3, <2>1 DEF OutputsAre
<1>9. CASE WriteOutput
  <2>1. at = "output" /\ at' = "dump" /\ Written(out, "binary")
    BY <1>9 DEF WriteOutput, Go
  <2> QED
    BY <1>2, <1>4, <2>1 DEF OutputsAre
<1>10. CASE CannotOpenOutput
  <2>1. at = "output" /\ at' = "exit" /\ status' = 1 /\ files' = files /\ verdict' = verdict
    BY <1>10 DEF CannotOpenOutput, Exit
  <2> QED
    BY <1>3, <2>1, OriginalWhat DEF OutputsAre
<1>11. CASE WriteDump
  <2>1. at = "dump" /\ at' = "object"
    BY <1>11 DEF WriteDump, Go
  <2>2. \A p \in {out, obj, dep} : p # NULL => FileAt(p)' = FileAt(p)
    BY <1>2, <1>3, <1>4, <1>11 DEF WriteDump
  <2> QED
    BY <1>2, <2>1, <2>2 DEF OutputsAre
<1>12. CASE WriteObject
  <2>1. /\ at = "object" /\ at' = "depfile"
        /\ (obj # NULL /\ Written(obj, "object")) \/ files' = files
    BY <1>12 DEF WriteObject, Go
  <2> QED
    BY <1>2, <1>3, <1>4, <2>1 DEF OutputsAre
<1>13. CASE WriteDepfile
  <2>1. at = "depfile" /\ at' = "exit" /\ verdict' = verdict
    BY <1>13 DEF WriteDepfile, Exit
  <2>2. verdict \in {"empty", "no_code", "code"}
    BY <1>1, <2>1 DEF OutputsSoFar
  <2>3. CASE dep = NULL /\ files' = files /\ status' = 0
    BY <1>3, <2>1, <2>2, <2>3 DEF OutputsAre
  <2>4. CASE dep # NULL /\ files' = files /\ status' = 1
    BY <1>3, <2>1, <2>4, OriginalWhat DEF OutputsAre
  <2>5. CASE dep # NULL /\ Written(dep, "manifest") /\ status' \in {0, 1}
    <3>1. /\ FileAt(dep)'.what = "manifest"
          /\ FileAt(out)' = FileAt(out) /\ (obj # NULL => FileAt(obj)' = FileAt(obj))
      BY <1>2, <1>4, <2>5
    <3>2. FileAt(out)'.what = "binary"
      BY <2>1, <3>1 DEF OutputsAre
    <3> QED
      BY <2>1, <2>2, <2>5, <3>1, <3>2 DEF OutputsAre
  <2> QED
    BY <1>13, <2>3, <2>4, <2>5 DEF WriteDepfile, Exit
<1> QED
  BY <1>5, <1>6, <1>7, <1>8, <1>9, <1>10, <1>11, <1>12, <1>13 DEF Assembler, Outputs

(* When the paths are told apart, exit status 0 says that the binary and   *)
(* the dependency file were opened and written to.                         *)
THEOREM StatusIsTrue == Spec => []StatusTellsOutputs
<1>1. Init => OutputsThere
  BY DEF Init, OutputsThere
<1>2. DriverInv /\ OutputsThere /\ [Next]_vars => OutputsThere'
  <2> SUFFICES ASSUME DriverInv, OutputsThere, [Next]_vars, (at # "args")',
                      LegalLine', PathsApart'
               PROVE  OutputsAre(output_path, obj_path, depfile_path)'
    BY DEF OutputsThere
  <2>1. argv' = argv
    BY DEF Next, Step, ParseArguments, Assembler, Outputs, Usage, TakeObj, TakeDepfile,
           TakeHexdump, BadArgument, EndOfArguments, ReadInput, RejectInput, WriteReport,
           CodeGen, WriteOutput, CannotOpenOutput, WriteDump, WriteObject, WriteDepfile,
           Terminated, vars
  <2>2. paths' = paths
    BY DEF Next, Step, ParseArguments, Assembler, Outputs, Usage, TakeObj, TakeDepfile,
           TakeHexdump, BadArgument, EndOfArguments, ReadInput, RejectInput, WriteReport,
           CodeGen, WriteOutput, CannotOpenOutput, WriteDump, WriteObject, WriteDepfile,
           Terminated, vars, AtArgument
  <2>3. LegalLine
    BY <2>1, CommandLineKept
  <2>4. PathsApart
    BY <2>1, <2>2
       DEF PathsApart, Asked, Named, ReportPath, input_path, output_path, paths
  <2>5. PICK out, obj, dep : out = output_path /\ obj = obj_path /\ dep = depfile_path
    OBVIOUS
  <2>6. at # "args" => OutputsAre(out, obj, dep)
    BY <2>3, <2>4, <2>5 DEF OutputsThere
  <2>7. OutputsAre(out, obj, dep)'
    <3>1. CASE ParseArguments
      <4>1. at = "args" /\ argv \in CommandLines /\ (Len(argv) >= 2 => TakenTo(i))
        BY <3>1 DEF ParseArguments, Usage, TakeObj, TakeDepfile, TakeHexdump, BadArgument,
                    EndOfArguments, AtArgument, DriverInv, Given1, ArgumentsSoFar
      <4>2. ~Usage
        BY <2>3, ArgumentsType, <4>1 DEF Usage, LegalLine
      <4>3. ~BadArgument
        BY <2>3, <4>1, BadIsIllegal DEF BadArgument, AtArgument
      <4>4. EndOfArguments
        BY <3>1, <4>1, <4>2, <4>3 DEF ParseArguments, TakeObj, TakeDepfile, TakeHexdump
      <4> QED
        BY <4>4, OutputsAtFirst
    <3>2. CASE Assembler \/ Outputs
      <4>1. at # "args"
        BY <3>2 DEF Assembler, Outputs, ReadInput, RejectInput, WriteReport, CodeGen,
                    WriteOutput, CannotOpenOutput, WriteDump, WriteObject, WriteDepfile
      <4> QED
        BY <2>3, <2>4, <2>5, <2>6, <3>2, <4>1, OutputsNext
    <3>3. CASE Terminated \/ UNCHANGED vars
      <4>1. at' = at /\ files' = files /\ status' = status /\ verdict' = verdict
        BY <3>3 DEF Terminated, vars
      <4>2. \A p : FileAt(p)' = FileAt(p)
        BY <4>1 DEF FileAt
      <4> QED
        BY <2>6, <4>1, <4>2 DEF OutputsAre
    <3> QED
      BY <3>1, <3>2, <3>3 DEF Next, Step
  <2> QED
    BY <2>1, <2>2, <2>5, <2>7 DEF OutputsAre, FileAt, output_path, paths
<1>3. OutputsThere => StatusTellsOutputs
  BY DEF OutputsThere, OutputsAre, StatusTellsOutputs, Holds
<1> QED
  BY <1>1, <1>2, <1>3, DriverInvariant, PTL DEF Spec

=============================================================================
