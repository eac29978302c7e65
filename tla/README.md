# A TLA+ model of MyAssembler

MyAssembler turns one assembly source (`.masm`) into a raw binary and,
optionally, a relocatable object file and a dependency manifest.  It is a
sequential C program of about 2100 lines.  What makes it hard is not
concurrency but agreement: two walks over the same blocks that must arrive at
the same addresses without ever comparing them, four tables searched by name
that must mean the same block by it, a parser that tells an operand from the next
label by one token of lookahead, and a lexer whose pointer must stop at the end
of a line in a buffer that still holds the line before.  None of that is checked
at run time, and the unit tests look at a handful of sources.

## 1. The system

```
 file --fgets--> lexer --Token list--> parser --AsmBlock list, imports, exports-->
      codeGen --MachineCode--> main: binary, hex dump, object file, manifest
```

Everything is called once, in that order, in one thread.  State passes through
return values and through the parser's static lists, which `assembler()` and
`write_dependency_file()` read back with `parser_get_*`.  The lists outlive a
call, and the tests do call `assembler()` many times in one process.

| component | source | state it keeps | operations |
|---|---|---|---|
| lexer | `lexer.c`, `assembler.c:10-34` | position in an 8192-byte line buffer, list tail | one token per loop iteration; `_lexer` feeds it line by line |
| parser | `parser.c`, `inc/parser.h` | current token, block being built, pending section, `.data` mode, three name lists | one statement per loop iteration of `parser()` or of `label()` |
| code generator | `codeGen.c`, `inc/codeGen.h` | three cursors per pass, label, label-symbol, symbol, relocation and chunk tables, three buffers | two passes over the blocks, exports and imports between them |
| assembler pipeline, object writer | `assembler.c` | none of its own | call the three in order, write the debug report; serialise `MachineCode` |
| dependency file | `assembler.c:87-204` | list of canonical paths | resolve, classify, drop duplicates, write |
| driver | `main.c` | command line | parse arguments, write up to four files, exit status |
| instruction table | `instructions.c` | constant | names, opcodes |
| utilities, decoder, hex dump | `utils.c`, `decoder.c`, `main.c:10-61` | none | 26-bit arithmetic, formatting |
| linker, emulator | not in this repository | | known only through the object format and the tests' use |

What makes each correct:

* lexer: the tokens cover the text and nothing else; a line is not cut; every
  number keeps its value.
* parser: every label of the file begins a block; the blocks say what the
  statements say; a setting lasts as long as the language says and no longer;
  it ends and does not read past the list.
* code generator: both passes agree, writes stay inside the buffers and cover
  them, each reference leads to the block its label denotes, an illegal source
  never yields an object.
* writers and driver: what is written is what was generated; a refused run leaves
  the outputs alone; the exit status claims no more than what happened.

The behaviours that are hard to test are listed, with their lines, under
`hazards` in `PROJECT.json`.  In short: disagreement of the two passes
(`codeGen.c:369`), unchecked cursors into malloc'ed buffers (`:392`), three
interleaved address spaces (`:462`), repeated labels across four tables
(`:433`), wrapped arithmetic before a range test (`:224`), names cut by a
buffer (`:360`) or told apart only by their file's tag (`:295`), lookahead and
end-of-list cases of the parser (`parser.c:437`, `:523`, `:560`), settings that
outlive a block (`:543`), the lexer's advance after a negative number and what
a line leaves behind in the buffer (`lexer.c:257`), lines and names that do not
fit (`assembler.c:25`, `lexer.c:124`), lists that outlive a call
(`assembler.c:122`), writes whose failure nobody looks at (`:195`), a header and the
writes it counts (`:214`), and files that are written one after another, each able
to fail (`main.c:98`, `:116`).

## 2. The modules

| module | what it is |
|---|---|
| `AsmProgram` | the data that passes between the parts (instructions, blocks, symbols, relocations), sizes, encodings, assumptions on the constants |
| `CodeGen` | the code generator: one step per iteration of one of `codeGen()`'s loops |
| `CodeGenProps` | its type invariant, safety and action properties |
| `CodeGenInv` | its inductive invariant |
| `ObjectFile` | what the object file of a program is: what stands at each place and in each table, with no passes and no cursors |
| `ObjectSpec` | the abstract specification: one step from a program to its object, or to its rejection |
| `CodeGenImplements` | the refinement mapping from `CodeGen` to `ObjectSpec`, and the invariant it needs |
| `Parser` | `parser()` and `label()`: one step per iteration of either loop |
| `ParserProps` | properties over any token list, stated by token positions |
| `ParserInv` | its inductive invariants, against the tokens and against the statements |
| `ParserMeaning` | files as statements, how statements become tokens, and what each file means |
| `Lexer` | `_lexer()` and `lexer()`: one step per fgets or per iteration of the loop over characters |
| `LexerProps`, `LexerMeaning` | properties over any text; files as sequences of lexemes and the tokens they stand for |
| `LexerInv` | its inductive invariant against the lexemes |
| `Assembler` | `assembler()`: instances of `Lexer`, `Parser` and `CodeGen`, each called with what the one before left |
| `AssemblerMeaning` | a file's text from its statements and its object from `ObjectFile`: end to end, with no state of a stage |
| `ObjectNames`, `ObjectNamesProps` | module tags and the names of private labels, character by character, over the objects of one link |
| `ObjectWriter`, `ObjectWriterProps` | `write_object()`, and its file as a reader finds it |
| `DepFile`, `DepFileProps` | `write_dependency_file()` and the parser's list it reads, over the calls of one process |
| `Driver`, `DriverProps` | `main()`: arguments, the files it writes, exit status |
| `MC...` | instances for TLC |
| `NumberLemmas` | facts about numbers, finite sets and concatenations that the proofs share |
| `CodeGenProofs`, `ParserProofs`, `LexerProofs`, `DepFileProofs`, `ObjectWriterProofs`, `ObjectNamesProofs`, `DriverProofs` | the proofs |

`Parser` and `CodeGen` both extend `AsmProgram`, so what one produces and the
other consumes is the same set, `Source`: `ParserTypeOK` says that the parser's
result is in it, and `CodeGen` starts from any element of it.  `Assembler`
composes the three stages' modules as they are, by `INSTANCE`: each waits in its
initial state, but for its argument, until the stage before it is done.

### How the model corresponds to the code

*Code generator.*  `cursor[s]` is `pc`, `data_pc` and `blob_pc` in pass 1 and
`pc`, `data_at` and `blob_at` in pass 2; `size` is `total_bytes` and its two
counterparts; `out[s]` is the buffer of section `s`, a function from the address
of each four-byte unit to the unit.  A store is to wherever the cursor is, also
when that is outside the buffer: `Store` then extends the function's domain and
`WritesInBounds` sees it.  Buffers are filled with `Uninit`, as malloc leaves
them.  `line` and `item` are the loop indices of block and unit.  Every
`exit(EXIT_FAILURE)` and failing assertion is the phase `"error"`.

*Abstractions.*  Labels are model values.  What the code derives from their
text is kept as constants: `PublicLabels` (`f_...`, `__START__`), and `CutTo`,
what is left of a name whose suffix does not fit `unique_name[96]`: it is taken to
lose its counter for every count (`ObjectNames` has it character by character).
Symbol names are
pairs: `label-[module:n]` is an injection of the label and the counter, because
no label contains a `-`.  Field widths are constants (`RegSpan` for 2^5,
`ImmSpan` for 2^21), so that a model checker reaches their limits and the proofs
hold for the real ones.  Registers' range assertions are left out because
`mapRegister` yields at most 0x0C; blocks with an empty label (`codeGen.c:326`)
because the parser builds none; the wrap of the 32-bit cursors, which needs a
source of 4 GB, is not reached and cursors are natural numbers.

*Parser.*  A token is a type and a text; "NULL" is the type read behind the last
token.  The crash of a read through that NULL is the place `"crash"`, an
`error_with_context` is `"error"`.  The texts of numbers are read through two
constants, `Atoi` for `.byte` and immediates and `Strtol` (base 0) for `.word`;
they differ on a leading zero, and the instances have such a numeral.
Mnemonics may be labels, as the code allows.  Diagnostics' wording is left out.

*Lexer.*  `buffer` is `_lexer`'s line buffer, in full: a line is copied to its
start with a terminator and the rest stays as it was, because `lexer()` may move
past the terminator.  The buffer's first contents are any of `Litter`, since it
is an uninitialised array.  A read beyond it is the character `"OUTSIDE"`; going
on there is the place `"outside"`, after which nothing is claimed.  Strtol
saturates at `LongMax`, and `itostr` writes a number back without the zeros it
began with.  `is_register` and `instruction` take a name only when no word
character follows, so they are lookups of the longest word.  A `-` before a
digit, a string and its missing end, a hexadecimal prefix without a digit are
branches of their own, in the code's order.

*Assembler.*  The lexer speaks of characters and the parser of names;
`Spelling` is the table between them, used where the parser is called.  `Atoi`
and `Strtol`, constants of `Parser`, are computed here from the characters.

*Names and objects.*  In `ObjectNames` a path, a label and a printed number are
sequences of characters; a tag ends at the first dot or after `TagSize - 1`
characters.  In `ObjectWriter` a file is a sequence of cells, each a byte, a
header or an entry; the layout of an entry is `ObjectFormat.h`'s, which is not
in the repository, and only the width of its name field matters; the three tables'
fields are taken to be of one width, which that header would have to confirm.  Of a
`MachineCode`'s fields only bytes and names are told apart.

*Dependency file.*  `realpath` is a function given by the instance, as are a
path's suffix and its control characters.  `g_import_paths` is the parser's
static list: `Assemble` replaces it, `AssembleEmpty` (a file without a token)
does not.  The file is a stdio stream: a `PrintLine` leaves its line in `stream`,
flushes some of the lines, or fails to, which discards the rest and sets `error`
(`assembler.c:195-199` looks at no result of fprintf).  `Close` and `CannotClose`
flush what is left, and only their outcome is the result.  So a success may go
with lines missing at the end or in the middle of the file, a line may stop short
(`torn`: the next line that is written runs into it, and neither is an entry then),
and a failure may go with a file that has everything.

*Driver.*  A path is a directory and the pieces of a name between its dots.
`files` says what was last written at a path and whether whole; any write may be
cut short, because `main` does not look at the result of any fwrite, and any fopen
but the first may fail. `WriteDepfile`, once it has opened its file, ends with
either status, whether the file is whole or not, as `DepFile` does. What the
assembler makes of its input is the constant `Verdicts`: `AssemblerMeaning` is
where that is decided. Different paths are different files (no links), and a crash
of a stage is not an exit status.

### Plan

Written: the modules above.  What is left is proof about the whole.
`AssemblesAsWritten` is to follow from what is proved of each stage
(`LexerMeansItsGrammar`, `ParserMeansItsStatements`, `Refinement`), and needs that
the characters of a statement, as `AssemblerMeaning` lays them out, are lexemes
whose tokens are the statement's.  `StagesGetTheirDomain` holds for every text only
where every word and number that the lexer can make has a name in `Spelling`, which
is so of the code's strings and of no finite table.

## 3. What TLC checks

Run inside this directory, e.g.
`tlc -workers 2 -config MCCodeGen_programs.cfg MCCodeGen`.

| run | what it checks | states |
|---|---|---|
| `codegen_programs` | types; contiguous layout; agreement of the passes; writes inside the buffers, none missing, none repeated; jumps reach their labels; relocations name their targets; the inductive invariant of the refinement, `ObjectInv`, with `IInv` in it; `CodeGen` refines `ObjectSpec`; every source leads to a return or an exit | 85 053 |
| `parser_tokens` | any short token list: types, every `name:` begins a block, every number and register of an accepted file is in exactly one place, termination | 171 648 |
| `parser_files` | every short file of statements is parsed to what its statements mean, or refused when one is out of place; sections by position; no read past the end of a file that ends inside a block | 157 793 |
| `lexer_lexemes` | every short file of lexemes becomes their tokens, or is refused at the first that is none; the pointer stays in its line; termination | 436 820 |
| `assembler_files` | every short file, in four layouts, becomes the object of the program its statements describe, or is refused; each stage is called within its domain; termination | 87 691 |
| `names_links` | a private label's symbol name is no other symbol's of the link, except the same label with the same count under the same tag | 457 827 |
| `writer_entries` | an object file read by its header's counts is the `MachineCode`; relocations name their symbols after the names are cut | 223 776 |
| `depfile_session` | after any calls, a dependency file reported as written names only its own source's imports, each once, in order, and all of them unless a write failed; a bad import leaves the old file alone; calls return | 289 565 |
| `driver_runs` | the meaning of every short command line; what a refused run leaves alone; what the exit status tells; the source is never written to; termination | 46 801 |

*Bounds of the generator's runs.*  Programs of three blocks from thirteen
shapes, with two import lists and two export lists (about 8800 programs), and
the empty program.  Three blocks are what the
properties need: a block whose section was left and re-entered (TEXT, DATA,
TEXT), a label defined twice and referred to from a third place, references
forwards and backwards.  The shapes put something at every boundary: no
contents, one byte, five bytes (padding of three and of a second word), a byte
above 255, an immediate at and just above its limit for both widths, references
of every kind from every section, code in a section where it is refused, an
external name, a label whose unique name is cut.  `RegSpan = 8`, `ImmSpan = 16`
give 7-bit words: a jump's range is -64..63, wider than any of these programs,
so `JumpReachesItsLabel` is a statement about encoding and direction here; what
happens beyond the range is the subject of `codegen_farjump`.

*Bounds of the parser's runs.*  `parser_tokens` starts outside a block (four
arbitrary tokens of thirteen), inside one (four of eleven) and inside a second
operand (three of eleven).  The parser looks at most three tokens ahead apart
from lists, so four tokens place every lookahead case at the end of the list as
well as before more tokens.  `parser_files` takes every file of up to four
statements of ten structural kinds, of up to five of the six that change
section or block, and every block of up to three instructions, directives and
labels.  The order of `.section`, `.data`, `.text` and labels needs at most
four statements to go wrong (a setting, a block, another setting, a block).

*Bounds of the lexer's run.*  Every sequence of up to three of twenty-nine
lexemes and of up to five of the six that a cut line or a negative number gets
wrong.  Line buffers of 12 and tokens of 7 characters are overrun by single
lexemes, by their sums, and after shorter and longer lines; `LongMax` is reached
within one token.  Two initial contents of the buffer (digits, quotes) turn a
read behind a line into a visible token or an unfinished string.

*Bounds of the composed run.*  A label, and up to three further statements of
eight kinds (two after an import), in four layouts: tight, with blanks and
comments everywhere, with carriage returns and no last newline, with a character
of no lexeme.  The stages have runs of their own; this one is about what passes
between them: text to names and numbers (`0x10`, `010`, `-1`, each in `.byte`,
`.word` or an immediate), the import and export lists, the head of the token list.

*Bounds of the writers' runs.*  `names_links`: two files with ten sorts of path
(with and without directories of either slash, dots, characters a tag replaces,
tags that are empty or cut) and up to two labels and one, or one file with three;
two files and one label of each are enough for two names to meet.
`writer_entries`: up to two of everything, names shorter than, as long as and
longer than their field.  `depfile_session`: four calls (assemble and write twice),
two directories, paths that fail each test; one list has three entries, so that a
flush can lose the one in the middle.  `driver_runs`: up to three
arguments of six sorts, four of the three that can be confused, one of five
pairs of an input and an output that makes the made-up paths meet the named.

*Fairness.*  Nothing in the program waits: each loop iteration ends and the next
is taken.  `WF_vars(Step)` says no more than that, and only the termination properties
need it.  In `DepFile` it covers the steps of a call, not the calls themselves:
a caller may stop calling.

*The steps of a refinement.*  `ObjectSpec` has one step, from pending to an object
or a rejection.  The mapping leaves the result pending until `codeGen` returns or
exits; the last step must then deliver exactly the object described: the images
unit for unit, the symbol table, the relocations and the chunks in order.
`ObjectFile` says each table by places: the n-th entry is the one with n entries
of its kind up to it, counted over the program.  So it is a predicate on an
object (`IsObject`) that at most one object satisfies, and no walk computes it.

### Where the program disagrees with what is said of it

These runs are expected to end in a violation, each a finding in `PROJECT.json`:

| run | what TLC shows |
|---|---|
| `codegen_farjump` | `encodeLabel` reports jumps that exceed the signed 26-bit range, but the distance was wrapped to 26 bits by `substraction_26bit` before the test: it never fires and the jump goes elsewhere |
| `parser_colon` | a file ending in a label's colon makes `label()` return NULL "gracefully" and `parser()` store through it |
| `lexer_negative` | after a negative number the lexer moves one character further than the number, so `.byte -1, 2` loses its comma |

Other limits of the program show in the conditions of the properties that pass,
and in the notes of the hazards they belong to:

* `LexesAsWritten` needs a blank or the end of the line after a negative number,
  and no leading zeros in it; `StaysInItsLine` excludes lines with one: at the end
  of a line the same advance goes past the terminator, into an earlier line.
* `EndsWellInABlock` is about files that end inside a block: with two newlines at
  the end outside one, as in the README's `.data ... .text` listing taken as a
  file, the parser reads the type of the NULL behind them (`parser.c:523-524`).
* `Readable` in `AssemblerMeaning` excludes a name as the last token of a file: it
  is not taken for an operand, and the file is refused.
* `JumpReachesItsLabel` and `ObjectSpec` take a jump to a label of `.data` or
  `.section` as the code does, as a difference of offsets of two address spaces,
  with no relocation.
* `PrivateNamesApart` needs names that fit: two labels alike in their first 95
  characters get one name.  And two files with the same tag (the name up to its
  first dot, 31 characters of it, in any directory) may share private names.
* `write_dependency_file` sets `ok` from `fclose` alone (`assembler.c:200`).  A flush
  that fails inside an fprintf leaves nothing for fclose to fail on: the message
  "Failed to write dependency file" stays away, the function returns 1, `main` 0,
  and lines are missing.  Nothing is claimed against it: `ManifestNamesImports` says
  that what is there is right, and that all is there when no write has failed
  (`~error`); `StatusTellsOutputs` says that the file was opened and written to, not
  that it is whole, and reads nothing into status 1 when a dependency file was
  asked for.
* `ManifestNamesImports` excludes a source without a token, which keeps the
  imports of the source assembled before it in the same process.
* `StatusTellsOutputs` is for paths that are told apart: an output named `*.txt`
  is replaced by its own hex dump.

## 4. What is proved

*Code generator.*  For every program, every set of names and every field width that satisfies
`LabelAssumption`, `WidthAssumption` and `ProgramsAssumption` (the programs are
`Source`s), TLAPS checks in `CodeGenProofs`:

| theorem | statement |
|---|---|
| `TypeCorrect` | `Spec => []TypeOK` |
| `Invariant` | `Spec => []IInv` |
| `LayoutCorrect` | `Spec => []LayoutContiguous` |
| `PassesAgreeCorrect` | `Spec => []PassesAgree` |
| `WritesInBoundsCorrect` | `Spec => []WritesInBounds` |
| `BuffersComplete` | `Spec => []NothingUninitialised` |
| `WriteOnceCorrect` | `Spec => WriteOnce` |
| `JumpsReachTheirLabels` | `Spec => [](FarJumpsAreReported => JumpReachesItsLabel)` |
| `RelocationsNameTheirTargets` | `Spec /\ NamesApart => RelocNamesItsTarget` |
| `ObjectInvariant` | `Spec => []ObjectInv` |
| `Refinement` | `Spec => ImplementsObjectSpec` |

The safety properties are not inductive by themselves.  That pass 2 stays inside
a buffer depends on where its cursor is, that on the address pass 1 gave the
block, and that on the layout; so they are proved together, as `LayoutInv`, which
adds:

* `OneEntryPerBlock`: `labelMap` has an entry for each block visited, and those
  blocks have instructions only in TEXT.  Pass 2 sends every instruction to
  `machineCode` whatever the block; it is this part that makes the block's
  section and the instruction's the same.
* `Aligned`: addresses and cursors are multiples of four, so that a store at the
  cursor and one below it do not overlap.
* `BlocksFit`: every block ends within its section's total.
* `WithinBlock`: pass 2 never goes more than one past a block's last unit, so that
  on leaving a block the cursor is exactly at its end.
* `WrittenBelowCursor`: a unit has been written exactly when it is below the
  cursor of its section.

The argument: `EndUnique` (there is one place where the first `n` blocks leave a
section) turns "the cursor is where the earlier blocks end" and "the next block's
address is where the earlier blocks end" into "the cursor is at the next block's
address"; at the end the same lemma makes each cursor equal to the buffer's size,
and `WrittenBelowCursor` then says that the buffer is complete.

`IInv` adds to the layout what jumps and names need:

* `Ordered` and `JumpsEncoded`: a later block of a section begins behind an
  earlier one, so no store of pass 2 touches a jump emitted before, and that jump
  still holds the distance to its label.  What the processor adds up is then the
  label's address if the distance fits the field; `FarJumpsAreReported` is that
  hypothesis, exactly the claim that `codegen_farjump` refutes.
* `TablesAgree` and `ImportsEntered`: the label, label-symbol and symbol tables
  have their entries at the same indices, and behind those stand the undefined
  imports.  A lookup by name then finds the block that the label means, provided
  names differ when labels do.  `NamesApart` is that hypothesis: with two labels
  that `unique_name[96]` cuts to one name (alike in their first 95 characters),
  or a label cut to the name of a public or imported one, TLC finds
  `RelocNamesItsTarget` violated.

The refinement is proved from `ObjectInv` (`CodeGenImplements`), that is `IInv`
and the object as far as it has come: the blocks placed and their symbols and
chunks (`BlocksSoFar`), the imports entered (`NamesSoFar`), the units emitted,
each legal and at its place (`UnitsSoFar`), and their relocations (`RelocsSoFar`).
Each step adds the next element of one table: the count of elements up to it is
one more than before, which is where the sums that no induction could reach
become cardinalities of sets.  Then every exit is a step to the rejection
(`~IsLegal`), the return is a step to an object that `IsObject` holds of, and all
others stutter.  `ObjectInv` is also an invariant of `codegen_programs`.

*Parser* (`ParserProofs`), for token lists of any length, under
`ParserAssumption`:

| theorem | statement |
|---|---|
| `ParserTypeCorrect` | `Spec => []ParserTypeOK` |
| `LabelsBeginBlocks` | `Spec => []EveryLabelBeginsABlock` |
| `SectionsAreByPosition` | `Spec => []SectionsByPosition` |
| `OperandsAreAccounted` | `Spec => []OperandsAccounted` |
| `ParserMeansItsStatements` | `MeaningSpec => []ParsesAsWritten` |
| `ParserEndsWell` | `MeaningSpec => []EndsWellInABlock` |

The first makes the result a `Source`, which is all that `CodeGenProofs` assumes
of its programs.  The properties of accepted files are about positions of the
whole list, the parser's state about what it has read, and `ParserInv` ties the
two.  `Placed`: the blocks so far are those of the labels before `cur`, with the
settings that the directives before each leave; inside a block nothing since the
block's label ends it or begins another (`Quiet`).  The one exception is a
parser that has taken a label's name for an operand and stands at its colon:
no step leads away from there, so no such file is accepted.  `Counted`: the
numbers before `cur` are as many as the places for them in the blocks, the one
being built among them, and the same for registers; so no operand is dropped or
used twice, whatever the lookahead decided.  The places of a list of blocks are
a disjoint union over its items (`BlockCount`, `AddInstrCounts`), and each step
adds as many as it reads tokens.  Both parts are invariants of TLC's small
instances too, where they were checked before they were proved.

The last two are for every file of statements: any number, each with any names,
arguments and items (`FilesAssumption`).  What the property describes statement by
statement, with `Opener`, `SectionAt` and concatenations over the file, the parser
finds with two loops and a few variables.  The invariant is `ReadsStatements`: in
every state there is a statement `i` such that

* `Reached`: `cur` is at the first token of `i`, or only at line ends before it,
  since the loop over blank lines and the one over a label's end do not divide
  them by statements;
* `Read`: the statements before `i` are legal and the lists of names and paths are
  what those statements leave in them;
* `AtTop` or `AtBlock`: outside a block, the blocks are those of the labels before
  `i`, and none is open at `i` unless `i` ends it; inside, the block has the
  contents of its statements so far, and the blocks before it are complete.

The argument starts from where tokens stand: `Laid` is that the list is the
`Printed` statements one after another, so that a token's place in its statement
decides its type, and a token that begins a statement occurs in no other place
where the parser looks for one.  For each kind of statement there is then a lemma
that the parser, at its first token, takes exactly the action meant for it, reads
exactly its tokens, and adds exactly its part (`Upto`) to one of the
concatenations.  A concatenation up to `i` is the one up to `i - 1` with one part
more (`UptoGrows`), and stays the same when the part is empty (`UptoStays`); that
`add_symbol_name` keeps each name once makes the list of all names
`Distinct` (`AddNames` over a statement's names is `Distinct` of the longer list).
The exits are the illegal statements, or the end of the file: `error_with_context`
is reached only at contents outside a block or an import inside one, and the NULL
behind the list is read only outside a block or right behind a label.
`ReadsStatements` was checked on the instance of `parser_files` before it was
proved.

*Lexer* (`LexerProofs`), for texts, buffers and tokens of any size, under
`LexerAssumption`: `LexerStaysInItsLine`, that is `Spec => []StaysInItsLine`.
The invariant adds what the text, the read position and the buffer are, so that
fgets leaves a NUL in the buffer and therefore a first one.  Its step cases rest on
two lemmas: a run of characters of one class that does not hold the NUL ends at
or before the terminator (`AfterInLine`, `UntilInLine`), and what a token keeps
of it is no longer than what was read (`CutLength`).  A negative number is where
that fails, hence the property's condition.  `LexerTypeCorrect`
(`Spec => []LexerTypeOK`) has no such condition: wherever the pointer is, a token's
text is cut, or one of the tables' names, or what a number's value is written back
as.  The last is no longer than `LONG_MAX` with a sign (`ItostrGrows`), and
`FitAssumption` says of the code's constants that this and the names fit.  What
`strtol` and `itostr` compute is defined by recursion on numbers; `NumberLemmas`
proves that such definitions define functions (`Iterates`, `CourseOfValues`), with
functions and sets in the place of the library's operator parameters.

`LexerMeansItsGrammar` is `MeaningSpec => []LexesAsWritten`, for every file that is
a sequence of lexemes: any number, of any length, over a line buffer and a token of
any size.  `SourcesAssumption` is the grammar (`IsLexeme`), and what the property
says of a file needs its lexemes to be told apart (`Whole`, `Spaced`).  The
invariant, `FollowsLexemes`, is about files that are decided: whose first lexeme
that is not read as itself, if there is one, ends the process.  At every iteration
there is a lexeme `i` such that the pointer is at its start, or inside it when it
is a blank, the tokens are those of the lexemes before it (`Reached`), and the
buffer holds the text of its line as far as it was read (`Holds`).  The argument:

* `WrittenTo` and `TokensAre`: the text and the tokens of the first `i` lexemes are
  those of the first `i - 1` with the `i`-th behind them.  `FlattenSeq` is
  recursive; `GrowthExists`, `Concatenation` and `GrowthPlaces` (`NumberLemmas`)
  unfold its definition for any family of sequences, and `LexemesStand` says with
  them that each lexeme stands in the text where `Starts` has it.
* `KindByFirst`: the first character tells which branch of the loop is taken.  A
  lone `-` opens no lexeme: the grammar has none.  `RunIs` and `UntilIs` say where
  a run of characters, or a search for one, comes to its end, which `Whole` makes
  the end of the lexeme; then each kind has its lemma (`WordFollows`,
  `StringFollows`, `NegativeFollows`, ...).
* `NextStart`: fgets starts at the positions of `ReadFrom` and no others.  A lexeme
  in one piece is therefore in the buffer as a whole, and the next line starts at
  the start of a lexeme or inside a blank.

`FollowsLexemes` was an invariant of `lexer_lexemes`'s instance before it was proved.

*Dependency file* (`DepFileProofs`), for any sources, paths and calls, under
`DepFileAssumption`: `DepFileTypes` (`[]DepFileTypeOK`), `DepFileEntries`
(`[]OneEntryPerDependency`), `DepFileFailureKeeps` (`FailureKeepsManifest`) and
`DepFileManifest` (`[]ManifestNamesImports`).  That no two entries agree is
inductive only together with what the entries are: exactly the canonical paths of
the imports before the index.  For the manifest the invariant also says their
order, that of the first mentions (`EntriesInOrder`), and what of them has been
printed (`StreamInv`): the entries of the file followed by the lines of the stream
are some of those printed, in their order, and all of them while no write has
failed.  A flush, failing or not, only moves lines from the one to the other or
drops some, and lines left out of orderly ones leave them orderly (`LeftOut`).

*Object writer* (`ObjectWriterProofs`), for every `MachineCode` whose sizes fit
the header's fields (`WriterAssumption`) and every width of a name:
`ObjectReadsBack` (`Spec => []ReadsBack`) and `RelocationsFindTheirSymbols`
(`Spec => []RelocationsResolve`).  Neither says anything before the file is
closed; the invariant, `WriterInv` (`FilePlanned`), says after every write that
the file is the beginning of the planned one, cell by cell, and that the place in
`write_object` gives its length.  A buffer or an entry written out of turn, twice
or not at all breaks the second part where it happens.  At the end the plan is
compared with what the header says, which is exact because the sizes fit.

*Names of a link* (`ObjectNamesProofs`), for every set of links, paths, labels and
buffer sizes that satisfies `NamesAssumption`: `NamesTypes` and
`PrivateNamesCorrect` (`Spec => []PrivateNamesApart`).  The invariant, `NamesInv`,
remembers what each name was made of (`AsMade`) and that counts of one object
differ (`CountsDiffer`, which needs `BelowCounter`).  The rest is about text:
`TextTells` takes a name that was not cut to pieces again, because neither `-` nor
`:` is a character of a label, and a printed number has no other spelling.

*Driver* (`DriverProofs`), for command lines of any length over any paths, any files
and any verdicts (`DriverAssumption`): `ArgumentsAreMeant`,
`RefusedRunsAreHarmless`, `SourceIsNeverWritten`, `StatusIsTrue` and `DriverTypes`.
`ArgumentsMean` reads the whole line at once; `TakenTo(i)` is that reading of what
is before argument `i`, and holds as the loop goes on because an argument is taken
exactly when the one before it is a flag that is not (`TakenStep`).  For the files,
`DriverInv` says which are untouched until when; the source survives because every
path that is opened is an argument behind it or ends in `.txt` (`ReportIsText`,
`DumpIsTextOrGiven`).  `StatusIsTrue` is one way for the most part: status 0 tells
of the binary and the dependency file, status 1 only of an input that was refused or
a binary that could not be opened, when no dependency file was asked for.

Only model-checked: what the three stages together make of a whole file
(`AssemblesAsWritten`, `StagesGetTheirDomain`); what their proofs would need is said
under Plan.
Termination (`Termination`, `ParserTermination`, `LexerTermination`,
`AssemblerTermination`, `CallsReturn`, `DriverTermination`) stays with TLC, since
the prover does not handle fairness and `ENABLED`.

## 5. What is not modelled

* Diagnostics: their wording, lines and columns.
* A NUL in a source file, which ends the line it is in for `lexer()`.
* The buffers that paths are copied to (`stem[256]`, `out_path[512]`,
  `out_path_buf[1024]`), and two paths that are one file by a link.  A dump path cut
  to 511 characters may be the source's, so `SourceSurvives` is for paths that fit.
* Memory exhaustion: the program checks malloc in some places and exits.
* The contents of the debug report and of the hex dump: formatting of data
  modelled elsewhere.  When they are written, and where, is in `Driver`.
* `find_instruction`'s case-insensitive search: the lexer yields only the table's
  own spellings.
* `decoder.c`: an encoder of one fixed form that nothing calls.
* The linker and the emulator are other projects; Unity is vendored.

Operators named `Fault...` are deliberate faults, each a plausible slip in the
definition that follows it.  No specification uses them; replacing the
definition by its fault shows that the property listed with it in
`PROJECT.json` can fail.
