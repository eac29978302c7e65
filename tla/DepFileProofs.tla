--------------------------- MODULE DepFileProofs ---------------------------
(***************************************************************************)
(* For every list of imports and every file system: the dependency file    *)
(* gets one entry for each file imported, in the order of first mention,   *)
(* and the one that was there is not touched unless every import is        *)
(* accepted.  Three invariants carry this: the state of the loop, what is  *)
(* collected so far together with the list it is collected from, and what  *)
(* has been printed together with what is collected.                       *)
(***************************************************************************)
EXTENDS DepFileProps, NumberLemmas

DepFileInv == DepFileTypeOK /\ OneEntryPerDependency

(* What one turn of the loop does to the collected entries.                *)
LEMMA AddPathKeeps ==
  ASSUME DepFileInv, AddPath
  PROVE  DepFileInv'
<1> DEFINE p == g_import_paths[i]
           d == Dependency(source, p)
<1>1. /\ at = "paths" /\ i \in 1 .. Len(g_import_paths) /\ g_import_paths \in Seq(Paths)
      /\ dependencies \in Seq(SourceDependency) /\ i \in Nat
      /\ Accepted(source, p) /\ i' = i + 1
      /\ UNCHANGED <<g_import_paths, last, source, manifest, result, at, calls>>
      /\ line' = line /\ stream' = stream /\ error' = error
  BY DEF DepFileInv, DepFileTypeOK, AddPath, AtPath, file
<1>2. d \in SourceDependency /\ d.path = Canonical(source, p)
  BY <1>1, DepFileAssumption DEF Accepted, Dependency, Canonical, SourceDependency
<1>3. dependencies' = dependencies \/ dependencies' = Append(dependencies, d)
  BY DEF AddPath
<1>4. DepFileTypeOK'
  <2>1. dependencies' \in Seq(SourceDependency)
    <3>1. dependencies \in Seq(SourceDependency) /\ d \in SourceDependency
      BY <1>1, <1>2
    <3> HIDE DEF d
    <3> QED
      BY <1>3, <3>1
  <2> QED
    BY <1>1, <2>1 DEF DepFileInv, DepFileTypeOK
<1>5. EntriesAccepted'
  <2>1. ASSUME NEW n \in 1 .. i PROVE Accepted(source, g_import_paths[n])
    <3>1. n \in 1 .. i - 1 \/ n = i
      BY <1>1
    <3> QED
      BY <1>1, <3>1 DEF DepFileInv, OneEntryPerDependency, EntriesAccepted
  <2> QED
    BY <1>1, <2>1 DEF EntriesAccepted, Accepted, Unresolved, Canonical
<1>6. Collected = {Canonical(source, g_import_paths[n]) : n \in 1 .. i - 1}
  BY <1>1 DEF DepFileInv, OneEntryPerDependency, EntriesAreImports, Collected
<1>7. {Canonical(source, g_import_paths[n]) : n \in 1 .. i}
        = Collected \union {Canonical(source, p)}
  <2>1. 1 .. i = (1 .. i - 1) \union {i}
    BY <1>1
  <2> QED
    BY <1>6, <2>1
<1>8. Collected' = Collected \union {Canonical(source, p)} /\ EntriesDistinct'
  <2>1. CASE Canonical(source, p) \in Collected
    <3>1. dependencies' = dependencies
      BY <2>1 DEF AddPath
    <3> QED
      BY <2>1, <3>1 DEF Collected, EntriesDistinct, DepFileInv, OneEntryPerDependency
  <2>2. CASE Canonical(source, p) \notin Collected
    <3>1. dependencies' = Append(dependencies, d)
      BY <2>2 DEF AddPath
    <3>2. DOMAIN dependencies = 1 .. Len(dependencies) /\ Len(dependencies) \in Nat
      BY <1>1
    <3>3. /\ DOMAIN dependencies' = 1 .. Len(dependencies) + 1
          /\ \A k \in 1 .. Len(dependencies) : dependencies'[k] = dependencies[k]
          /\ dependencies'[Len(dependencies) + 1] = d
      BY <1>1, <1>2, <3>1
    <3>4. EntriesDistinct'
      BY <1>2, <2>2, <3>2, <3>3
      DEF EntriesDistinct, Collected, DepFileInv, OneEntryPerDependency
    <3>5. Collected' = Collected \union {Canonical(source, p)}
      BY <1>2, <3>2, <3>3 DEF Collected
    <3> QED
      BY <3>4, <3>5
  <2> QED
    BY <2>1, <2>2
<1>9. EntriesAreImports'
  <2>1. i' - 1 = i /\ source' = source /\ g_import_paths' = g_import_paths
    BY <1>1
  <2>2. {Canonical(source', g_import_paths'[n]) : n \in 1 .. i' - 1}
          = {Canonical(source, g_import_paths[n]) : n \in 1 .. i}
    BY <2>1
  <2>3. Collected' = {Canonical(source', g_import_paths'[n]) : n \in 1 .. i' - 1}
    BY <1>7, <1>8, <2>2
  <2> QED
    BY <2>3 DEF EntriesAreImports, Collected
<1> QED
  BY <1>4, <1>5, <1>8, <1>9 DEF DepFileInv, OneEntryPerDependency

(* What reaches the file, and what does not.                               *)
LEMMA ReachWrites ==
  ASSUME NEW lines, NEW n, NEW state, NEW torn, Reach(lines, n, state, torn)
  PROVE  /\ manifest'.state = state
         /\ manifest'.torn = torn
         /\ \E a \in {1, 2} :
              /\ a = 2 => manifest.torn
              /\ manifest'.entries = manifest.entries \o SubSeq(lines, a, n)
<1> DEFINE a == IF manifest.torn THEN 2 ELSE 1
           kept == manifest.entries \o SubSeq(lines, a, n)
<1>1. manifest' = [state |-> state, entries |-> kept, torn |-> torn]
  BY DEF Reach
<1>2. a \in {1, 2} /\ (a = 2 => manifest.torn)
  OBVIOUS
<1>3. manifest'.entries = kept
  <2> HIDE DEF kept
  <2> QED
    BY <1>1
<1>4. manifest'.state = state
  <2> HIDE DEF kept
  <2> QED
    BY <1>1
<1>5. manifest'.torn = torn
  <2> HIDE DEF kept
  <2> QED
    BY <1>1, Zenon
<1>6. \E b \in {1, 2} :
        /\ b = 2 => manifest.torn
        /\ manifest'.entries = manifest.entries \o SubSeq(lines, b, n)
  <2> HIDE DEF a
  <2> QED
    BY <1>2, <1>3, Zenon
<1> QED
  BY <1>4, <1>5, <1>6, Zenon

(* A print gives the file the lines from a to n of those that were in the  *)
(* stream and the new one, and leaves those behind n up to m.              *)
LEMMA PrintMoves ==
  ASSUME DepFileInv, PrintLine
  PROVE  /\ Buffered \in Seq(SourceDependency)
         /\ \E n \in 0 .. Len(Buffered) : \E m \in n .. Len(Buffered), a \in {1, 2} :
              /\ manifest'.entries = manifest.entries \o SubSeq(Buffered, a, n)
              /\ stream' = SubSeq(Buffered, n + 1, m)
              /\ manifest'.state \in {"absent", "open", "closed", "failed"}
              /\ manifest'.torn \in BOOLEAN /\ error' \in BOOLEAN
              /\ ~error' => /\ ~error
                            /\ m = Len(Buffered)
                            /\ a = 2 => manifest.torn
                            /\ manifest'.torn => manifest.torn
<1> DEFINE B == Buffered
<1>1. /\ line \in 1 .. Len(dependencies) /\ dependencies \in Seq(SourceDependency)
      /\ stream \in Seq(SourceDependency) /\ manifest.entries \in Seq(SourceDependency)
      /\ manifest.torn \in BOOLEAN /\ error \in BOOLEAN
      /\ manifest.state \in {"absent", "open", "closed", "failed"}
  BY DEF PrintLine, DepFileInv, DepFileTypeOK
<1>2. B \in Seq(SourceDependency) /\ Len(B) \in Nat /\ Len(B) >= 1
  BY <1>1 DEF Buffered
<1> HIDE DEF B
<1>3. CASE Hold
  <2>1. stream' = B /\ manifest' = manifest /\ error' = error
    BY <1>3 DEF Hold, B
  <2>2. SubSeq(B, 0 + 1, Len(B)) = B /\ SubSeq(B, 1, 0) = << >>
    BY <1>2
  <2>3. manifest.entries \o SubSeq(B, 1, 0) = manifest.entries
    BY <1>1, <2>2
  <2>4. 0 \in 0 .. Len(B) /\ Len(B) \in 0 .. Len(B)
    BY <1>2
  <2>5. /\ manifest'.entries = manifest.entries \o SubSeq(B, 1, 0)
        /\ stream' = SubSeq(B, 0 + 1, Len(B))
    BY <2>1, <2>2, <2>3
  <2>6. /\ manifest'.state \in {"absent", "open", "closed", "failed"}
        /\ manifest'.torn \in BOOLEAN /\ error' \in BOOLEAN
    BY <1>1, <2>1
  <2>7. ~error' => /\ ~error
                   /\ Len(B) = Len(B)
                   /\ 1 = 2 => manifest.torn
                   /\ manifest'.torn => manifest.torn
    BY <2>1
  <2>8. 1 \in {1, 2}
    OBVIOUS
  <2> QED
    BY <1>2, <2>4, <2>5, <2>6, <2>7, <2>8, Zenon DEF B
<1>4. CASE Flush
  <2>1. PICK n \in 1 .. Len(B) :
          /\ Reach(B, n, "open", FALSE)
          /\ stream' = SubSeq(B, n + 1, Len(B))
          /\ error' = error
    BY <1>4 DEF Flush, B
  <2>2. PICK a \in {1, 2} :
          /\ a = 2 => manifest.torn
          /\ manifest'.entries = manifest.entries \o SubSeq(B, a, n)
    BY <2>1, ReachWrites
  <2>3. manifest'.state = "open" /\ manifest'.torn = FALSE
    BY <2>1, ReachWrites
  <2>4. n \in 0 .. Len(B) /\ Len(B) \in n .. Len(B)
    BY <1>2
  <2> QED
    BY <1>1, <1>2, <2>1, <2>2, <2>3, <2>4 DEF B
<1>5. CASE FlushFails
  <2>1. PICK n \in 0 .. Len(B) - 1 :
          Fails(B, n, "open") /\ stream' = << >> /\ error' = TRUE
    BY <1>5 DEF FlushFails, B
  <2>2. PICK torn \in BOOLEAN : Reach(B, n, "open", torn)
    BY <2>1 DEF Fails
  <2>3. PICK a \in {1, 2} : manifest'.entries = manifest.entries \o SubSeq(B, a, n)
    BY <2>2, ReachWrites
  <2>4. manifest'.state = "open" /\ manifest'.torn = torn
    BY <2>2, ReachWrites
  <2>5. n \in 0 .. Len(B) /\ n \in n .. Len(B) /\ SubSeq(B, n + 1, n) = << >>
    BY <1>2
  <2> QED
    BY <1>2, <2>1, <2>2, <2>3, <2>4, <2>5 DEF B
<1> QED
  BY <1>3, <1>4, <1>5 DEF PrintLine

(* So does the closing of the file, with the lines that are left.          *)
LEMMA CloseMoves ==
  ASSUME DepFileInv, Close \/ CannotClose
  PROVE  /\ \E n \in 0 .. Len(stream), a \in {1, 2} :
              /\ a = 2 => manifest.torn
              /\ manifest'.entries = manifest.entries \o SubSeq(stream, a, n)
              /\ Close => n = Len(stream) /\ (manifest'.torn => manifest.torn)
         /\ manifest'.state \in {"absent", "open", "closed", "failed"}
         /\ manifest'.torn \in BOOLEAN
         /\ stream' = << >>
<1>1. stream \in Seq(SourceDependency) /\ manifest.torn \in BOOLEAN /\ Len(stream) \in Nat
  BY DEF DepFileInv, DepFileTypeOK
<1>2. CASE Close
  <2>1. /\ Reach(stream, Len(stream), "closed", manifest.torn /\ stream = << >>)
        /\ stream' = << >>
    BY <1>2 DEF Close
  <2>2. manifest'.state = "closed" /\ manifest'.torn = (manifest.torn /\ stream = << >>)
    BY <2>1, ReachWrites
  <2>3. PICK a \in {1, 2} :
          /\ a = 2 => manifest.torn
          /\ manifest'.entries = manifest.entries \o SubSeq(stream, a, Len(stream))
    BY <2>1, ReachWrites
  <2>4. manifest'.torn \in BOOLEAN /\ (manifest'.torn => manifest.torn)
    BY <2>2
  <2>5. Len(stream) \in 0 .. Len(stream)
    BY <1>1
  <2>6. manifest'.state \in {"absent", "open", "closed", "failed"} /\ stream' = << >>
    BY <2>1, <2>2
  <2> QED
    BY <2>3, <2>4, <2>5, <2>6
<1>3. CASE CannotClose /\ ~Close
  <2>1. PICK n \in 0 .. Len(stream) : Fails(stream, n, "failed")
    BY <1>3 DEF CannotClose
  <2>2. PICK torn \in BOOLEAN : Reach(stream, n, "failed", torn)
    BY <2>1 DEF Fails
  <2>3. manifest'.state = "failed" /\ manifest'.torn = torn
    BY <2>2, ReachWrites
  <2>4. PICK a \in {1, 2} :
          /\ a = 2 => manifest.torn
          /\ manifest'.entries = manifest.entries \o SubSeq(stream, a, n)
    BY <2>2, ReachWrites
  <2>5. stream' = << >>
    BY <1>3 DEF CannotClose
  <2> QED
    BY <1>3, <2>2, <2>3, <2>4, <2>5
<1> QED
  BY <1>2, <1>3

(* A call that leaves the list and what it has collected as they are.      *)
LEMMA SameList ==
  ASSUME OneEntryPerDependency, UNCHANGED <<g_import_paths, source, i, dependencies>>,
         at # "caller" \/ at' = "caller"
  PROVE  OneEntryPerDependency'
  BY DEF OneEntryPerDependency, EntriesDistinct, EntriesAreImports, EntriesAccepted,
    Accepted, Canonical, Unresolved

(* The opening, the printing and the closing of the file keep the types.   *)
LEMMA OpenTypes ==
  ASSUME DepFileInv, Open
  PROVE  DepFileInv'
<1>1. i = Len(g_import_paths) + 1 /\ at = "paths" /\ dependencies \in Seq(SourceDependency)
  BY DEF Open, AllPaths, DepFileInv, DepFileTypeOK
<1>2. /\ manifest' = [state |-> "open", entries |-> << >>, torn |-> FALSE]
      /\ line' = 1 /\ stream' = << >> /\ error' = FALSE
  BY DEF Open, Opened
<1>3. UNCHANGED <<g_import_paths, last, source, i, dependencies, result, calls>> /\ at' = "open"
  BY DEF Open, locals
<1>4. /\ manifest'.entries \in Seq(SourceDependency)
      /\ manifest'.state \in {"absent", "open", "closed", "failed"}
      /\ manifest'.torn \in BOOLEAN
  BY <1>2
<1>5. line' \in Nat \ {0} /\ line' <= Len(dependencies) + 1
  BY <1>1, <1>2
<1>6. DepFileTypeOK'
  BY <1>1, <1>2, <1>3, <1>4, <1>5 DEF DepFileInv, DepFileTypeOK
<1> QED
  BY <1>1, <1>3, <1>6, SameList DEF DepFileInv

LEMMA PrintTypes ==
  ASSUME DepFileInv, PrintLine
  PROVE  DepFileInv'
<1>1. /\ UNCHANGED <<g_import_paths, last, source, i, dependencies, result, at, calls>>
      /\ at = "open" /\ line <= Len(dependencies) /\ line' = line + 1
  BY DEF PrintLine, locals
<1>2. Buffered \in Seq(SourceDependency)
  BY PrintMoves
<1>3. PICK n \in 0 .. Len(Buffered) : \E m \in n .. Len(Buffered), a \in {1, 2} :
        /\ manifest'.entries = manifest.entries \o SubSeq(Buffered, a, n)
        /\ stream' = SubSeq(Buffered, n + 1, m)
        /\ manifest'.state \in {"absent", "open", "closed", "failed"}
        /\ manifest'.torn \in BOOLEAN /\ error' \in BOOLEAN
  BY PrintMoves
<1>4. PICK m \in n .. Len(Buffered), a \in {1, 2} :
        /\ manifest'.entries = manifest.entries \o SubSeq(Buffered, a, n)
        /\ stream' = SubSeq(Buffered, n + 1, m)
  BY <1>3
<1>5. /\ SubSeq(Buffered, a, n) \in Seq(SourceDependency)
      /\ SubSeq(Buffered, n + 1, m) \in Seq(SourceDependency)
  BY <1>2
<1>6. manifest.entries \in Seq(SourceDependency) /\ line \in Nat /\ Len(dependencies) \in Nat
  BY DEF DepFileInv, DepFileTypeOK
<1>7. manifest'.entries \in Seq(SourceDependency) /\ stream' \in Seq(SourceDependency)
  BY <1>4, <1>5, <1>6
<1>8. /\ manifest'.state \in {"absent", "open", "closed", "failed"}
      /\ manifest'.torn \in BOOLEAN /\ error' \in BOOLEAN
  BY <1>3
<1>9. line' \in Nat \ {0} /\ line' <= Len(dependencies) + 1
  BY <1>1, <1>6
<1>10. DepFileTypeOK'
  BY <1>1, <1>7, <1>8, <1>9 DEF DepFileInv, DepFileTypeOK
<1> QED
  BY <1>1, <1>10, SameList DEF DepFileInv

LEMMA CloseTypes ==
  ASSUME DepFileInv, Close \/ CannotClose
  PROVE  DepFileInv'
<1>1. /\ UNCHANGED <<g_import_paths, last, source, i, dependencies, line, error, calls>>
      /\ at' = "caller" /\ result' \in {"ok", "failed"}
  BY DEF Close, CannotClose, Return, locals
<1>2. PICK n \in 0 .. Len(stream), a \in {1, 2} :
        manifest'.entries = manifest.entries \o SubSeq(stream, a, n)
  BY CloseMoves
<1>3. stream \in Seq(SourceDependency) /\ manifest.entries \in Seq(SourceDependency)
  BY DEF DepFileInv, DepFileTypeOK
<1>4. SubSeq(stream, a, n) \in Seq(SourceDependency)
  BY <1>3
<1>5. manifest'.entries \in Seq(SourceDependency)
  BY <1>2, <1>3, <1>4
<1>6. /\ manifest'.state \in {"absent", "open", "closed", "failed"}
      /\ manifest'.torn \in BOOLEAN
  BY CloseMoves
<1>7. stream' = << >>
  BY CloseMoves
<1>8. DepFileTypeOK'
  BY <1>1, <1>5, <1>6, <1>7 DEF DepFileInv, DepFileTypeOK
<1> QED
  BY <1>1, <1>8, SameList DEF DepFileInv

(* Every step keeps the invariant.                                         *)
LEMMA DepFileInvNext == DepFileInv /\ [Next]_vars => DepFileInv'
<1> SUFFICES ASSUME DepFileInv, [Next]_vars PROVE DepFileInv'
  OBVIOUS
<1> USE DEF DepFileInv, DepFileTypeOK, OneEntryPerDependency, EntriesDistinct,
  EntriesAreImports, EntriesAccepted
<1>1. ASSUME NEW f \in Sources, NEW ps \in ImportLists, Assemble(f, ps) PROVE DepFileInv'
  BY <1>1, DepFileAssumption DEF Assemble, Called, locals, file
<1>2. ASSUME NEW f \in Sources, AssembleEmpty(f) PROVE DepFileInv'
  BY <1>2, DepFileAssumption DEF AssembleEmpty, Called, locals, file
<1>3. ASSUME NEW f \in Sources, NoDirectory(f) PROVE DepFileInv'
  BY <1>3, DepFileAssumption DEF NoDirectory, Called, locals, file, Return
<1>4. ASSUME NEW f \in Sources, Begin(f) PROVE DepFileInv'
  BY <1>4, DepFileAssumption DEF Begin, Called, file
<1>5. CASE RejectPath
  BY <1>5 DEF RejectPath, AtPath, Return, locals, file
<1>6. CASE AddPath
  BY <1>6, AddPathKeeps
<1>7. CASE Open
  BY <1>7, OpenTypes
<1>8. CASE CannotOpen
  BY <1>8 DEF CannotOpen, AllPaths, Return, locals, file
<1>9. CASE PrintLine
  BY <1>9, PrintTypes
<1>10. CASE Close \/ CannotClose
  BY <1>10, CloseTypes
<1>11. CASE Idle \/ UNCHANGED vars
  BY <1>11 DEF Idle, vars, locals, file
<1> QED
  BY <1>1, <1>2, <1>3, <1>4, <1>5, <1>6, <1>7, <1>8, <1>9, <1>10, <1>11
  DEF Next, Call, WriteDependencyFile

LEMMA DepFileInvInit == Init => DepFileInv
<1> SUFFICES ASSUME Init PROVE DepFileInv
  OBVIOUS
<1>1. /\ manifest.entries = << >> /\ manifest.state = "absent"
      /\ manifest.torn \in BOOLEAN /\ error \in BOOLEAN
  BY DEF Init
<1>2. DepFileTypeOK
  BY <1>1, DepFileAssumption DEF Init, DepFileTypeOK
<1>3. OneEntryPerDependency
  BY DEF Init, OneEntryPerDependency, EntriesDistinct, EntriesAreImports, EntriesAccepted
<1> QED
  BY <1>2, <1>3 DEF DepFileInv

(* The types, for every instance.                                          *)
THEOREM DepFileTypes == Spec => []DepFileTypeOK
<1>1. DepFileInv => DepFileTypeOK
  BY DEF DepFileInv
<1> QED
  BY <1>1, DepFileInvInit, DepFileInvNext, PTL DEF Spec

(* For every list of imports, however many names lead to the same file:    *)
(* each file imported so far has one entry, and nothing else has one.      *)
THEOREM DepFileEntries == Spec => []OneEntryPerDependency
<1>1. DepFileInv => OneEntryPerDependency
  BY DEF DepFileInv
<1> QED
  BY <1>1, DepFileInvInit, DepFileInvNext, PTL DEF Spec

(* Only a call that has accepted every import touches the file.            *)
LEMMA FileTouchedLast ==
  ASSUME DepFileInv, [Next]_vars, manifest' # manifest
  PROVE  \A n \in DOMAIN g_import_paths : Accepted(source, g_import_paths[n])
<1>1. Open \/ PrintLine \/ Close \/ CannotClose
  BY DEF Next, Call, Assemble, AssembleEmpty, NoDirectory, Begin, WriteDependencyFile,
    RejectPath, AddPath, CannotOpen, Idle, vars, Return
<1>2. at \in {"paths", "open"} /\ i > Len(g_import_paths)
  BY <1>1 DEF Open, AllPaths, PrintLine, Printed, Close, CannotClose, DepFileInv, DepFileTypeOK
<1>3. DOMAIN g_import_paths = 1 .. Len(g_import_paths) /\ Len(g_import_paths) \in Nat /\ i \in Nat
  BY DEF DepFileInv, DepFileTypeOK
<1>4. DOMAIN g_import_paths \subseteq 1 .. i - 1
  BY <1>2, <1>3
<1> QED
  BY <1>2, <1>4 DEF DepFileInv, OneEntryPerDependency, EntriesAccepted

(* A call that finds one import it cannot accept leaves the file as it was.*)
THEOREM DepFileFailureKeeps == Spec => FailureKeepsManifest
<1>1. DepFileInv /\ [Next]_vars =>
        [manifest' # manifest =>
           \A n \in DOMAIN g_import_paths : Accepted(source, g_import_paths[n])]_vars
  BY FileTouchedLast
<1> QED
  BY <1>1, DepFileInvInit, DepFileInvNext, PTL DEF Spec, FailureKeepsManifest

---------------------------------------------------------------------------
(* What is collected, and what of it reaches the file.                     *)

(* The list the parser keeps is that of the file assembled last, unless    *)
(* that one had no token.                                                  *)
ListIsLast == ~last.empty => g_import_paths = last.imports

(* The entries collected are those of the first mentions, in their order.  *)
EntriesInOrder ==
  at # "caller" =>
    /\ ListsInOrder(dependencies, source, g_import_paths, i - 1)
    /\ ListsSomeInOrder(dependencies, source, g_import_paths, i - 1)

(* A call has no result before it returns.                                 *)
NoResultYet == at # "caller" => result = "none"

(* The lines w are some of the first n collected, in their order.          *)
Orderly(w, n) ==
  /\ \A j \in DOMAIN w : \E p \in 1 .. n : w[j] = dependencies[p]
  /\ \A j, l \in DOMAIN w : \A p, q \in 1 .. n :
       j < l /\ w[j] = dependencies[p] /\ w[l] = dependencies[q] => p < q

(* The lines that are in the file or still in the stream.                  *)
Gathered == manifest.entries \o stream

(* They are some of those printed, in order, and all of them unless a      *)
(* write has failed.                                                       *)
StreamInv ==
  at = "open" =>
    /\ Orderly(Gathered, line - 1)
    /\ ~error => Gathered = SubSeq(dependencies, 1, line - 1) /\ ~manifest.torn

ManifestInv ==
  ListIsLast /\ EntriesInOrder /\ NoResultYet /\ StreamInv /\ ManifestNamesImports

(* One more import is one more first mention, or none.                     *)
LEMMA OneMoreMention ==
  ASSUME NEW f, NEW ps, NEW n \in Nat
  PROVE  /\ FirstMentions(f, ps, n) \subseteq 1 .. n
         /\ IsFiniteSet(FirstMentions(f, ps, n))
         /\ Cardinality(FirstMentions(f, ps, n)) \in Nat
         /\ (\E j \in 1 .. n : Canonical(f, ps[j]) = Canonical(f, ps[n + 1]))
              => FirstMentions(f, ps, n + 1) = FirstMentions(f, ps, n)
         /\ (\A j \in 1 .. n : Canonical(f, ps[j]) # Canonical(f, ps[n + 1]))
              => /\ FirstMentions(f, ps, n + 1) = FirstMentions(f, ps, n) \union {n + 1}
                 /\ Cardinality(FirstMentions(f, ps, n + 1))
                      = Cardinality(FirstMentions(f, ps, n)) + 1
<1> DEFINE A == FirstMentions(f, ps, n)
           B == FirstMentions(f, ps, n + 1)
<1>1. A \subseteq 1 .. n
  BY DEF FirstMentions
<1>2. IsFiniteSet(A) /\ Cardinality(A) \in Nat
  <2>1. A \in SUBSET (1 .. n) /\ 1 \in Int /\ n \in Int
    BY <1>1
  <2> HIDE DEF A
  <2> QED
    BY <2>1, FiniteWithin
<1>3. 1 .. n + 1 = (1 .. n) \union {n + 1} /\ (n + 1) - 1 = n
  OBVIOUS
<1>4. B = A \union (IF \A j \in 1 .. n : Canonical(f, ps[j]) # Canonical(f, ps[n + 1])
                    THEN {n + 1} ELSE {})
  BY <1>3 DEF FirstMentions
<1>5. n + 1 \notin A
  BY <1>1
<1> DEFINE New == \A j \in 1 .. n : Canonical(f, ps[j]) # Canonical(f, ps[n + 1])
<1>6. /\ New => B = A \union {n + 1}
      /\ ~New => B = A
  BY <1>4
<1> HIDE DEF A, B, New
<1>7. Cardinality(A \union {n + 1}) = Cardinality(A) + 1
  BY <1>2, <1>5, FS_AddElement
<1>8. /\ ~New => B = A
      /\ New => B = A \union {n + 1} /\ Cardinality(B) = Cardinality(A) + 1
  BY <1>6, <1>7
<1>9. (\E j \in 1 .. n : Canonical(f, ps[j]) = Canonical(f, ps[n + 1])) => B = A
  BY <1>8 DEF New
<1>10. (\A j \in 1 .. n : Canonical(f, ps[j]) # Canonical(f, ps[n + 1]))
          => B = A \union {n + 1} /\ Cardinality(B) = Cardinality(A) + 1
  BY <1>8 DEF New
<1> QED
  BY <1>1, <1>2, <1>9, <1>10 DEF A, B

(* The place of a first mention in the file lies within it.                *)
LEMMA PlaceWithin ==
  ASSUME NEW f, NEW ps, NEW n \in Nat, NEW k \in FirstMentions(f, ps, n)
  PROVE  Cardinality(FirstMentions(f, ps, k)) \in 1 .. Cardinality(FirstMentions(f, ps, n))
<1>1. k \in Nat /\ k \in 1 .. n /\ k \in 1 .. k
  BY DEF FirstMentions
<1>2. FirstMentions(f, ps, k) \subseteq FirstMentions(f, ps, n)
  BY <1>1 DEF FirstMentions
<1>3. k \in FirstMentions(f, ps, k)
  BY <1>1 DEF FirstMentions
<1>4. /\ IsFiniteSet(FirstMentions(f, ps, n)) /\ IsFiniteSet(FirstMentions(f, ps, k))
      /\ Cardinality(FirstMentions(f, ps, n)) \in Nat
      /\ Cardinality(FirstMentions(f, ps, k)) \in Nat
  BY <1>1, OneMoreMention
<1>5. Cardinality(FirstMentions(f, ps, k)) <= Cardinality(FirstMentions(f, ps, n))
  BY <1>2, <1>4, FS_Subset
<1>6. Cardinality(FirstMentions(f, ps, k)) # 0
  BY <1>3, <1>4, FS_EmptySet
<1> QED
  BY <1>4, <1>5, <1>6

(* A turn of the loop keeps the entries in order.                          *)
LEMMA AddPathInOrder ==
  ASSUME DepFileInv, EntriesInOrder, AddPath
  PROVE  EntriesInOrder'
<1> DEFINE n == i - 1
           g == g_import_paths
           d == Dependency(source, g[i])
           m == Len(dependencies)
           F(k) == FirstMentions(source, g, k)
<1>1. /\ at = "paths" /\ i \in Nat \ {0} /\ n \in Nat /\ n + 1 = i
      /\ dependencies \in Seq(SourceDependency) /\ m \in Nat
      /\ i' = i + 1 /\ i' - 1 = n + 1
      /\ UNCHANGED <<g_import_paths, source, at>>
  BY DEF DepFileInv, DepFileTypeOK, AddPath, AtPath
<1>2. Collected = {Canonical(source, g[j]) : j \in 1 .. n}
  BY <1>1 DEF DepFileInv, OneEntryPerDependency, EntriesAreImports, Collected
<1>3. /\ m = Cardinality(F(n))
      /\ \A k \in F(n) : dependencies[Cardinality(F(k))] = Dependency(source, g[k])
  BY <1>1 DEF EntriesInOrder, ListsInOrder
<1>5. ListsSomeInOrder(dependencies, source, g, n)
  BY <1>1 DEF EntriesInOrder
<1>4. ListsInOrder(dependencies', source, g, n + 1)
  <2>1. CASE Canonical(source, g[i]) \in Collected
    <3>1. dependencies' = dependencies
      BY <2>1 DEF AddPath
    <3>2. F(n + 1) = F(n)
      BY <1>1, <1>2, <2>1, OneMoreMention
    <3> QED
      BY <1>3, <3>1, <3>2 DEF ListsInOrder
  <2>2. CASE Canonical(source, g[i]) \notin Collected
    <3>1. dependencies' = Append(dependencies, d)
      BY <2>2 DEF AddPath
    <3>2. /\ F(n + 1) = F(n) \union {n + 1}
          /\ Cardinality(F(n + 1)) = Cardinality(F(n)) + 1
      BY <1>1, <1>2, <2>2, OneMoreMention
    <3>3. /\ Len(dependencies') = m + 1 /\ dependencies'[m + 1] = d
          /\ \A k \in 1 .. m : dependencies'[k] = dependencies[k]
      <4> HIDE DEF d
      <4> QED
        BY <1>1, <3>1
    <3>4. ASSUME NEW k \in F(n + 1)
          PROVE  dependencies'[Cardinality(F(k))] = Dependency(source, g[k])
      <4>1. CASE k \in F(n)
        <5>1. Cardinality(F(k)) \in 1 .. m
          BY <1>1, <1>3, <4>1, PlaceWithin
        <5> QED
          BY <1>3, <3>3, <4>1, <5>1
      <4>2. CASE k = n + 1
        BY <1>1, <1>3, <3>2, <3>3, <4>2
      <4> QED
        BY <3>2, <3>4, <4>1, <4>2
    <3> QED
      BY <1>3, <3>2, <3>3, <3>4 DEF ListsInOrder
  <2> QED
    BY <2>1, <2>2
<1>6. ListsSomeInOrder(dependencies', source, g, n + 1)
  <2>1. CASE Canonical(source, g[i]) \in Collected
    <3>1. dependencies' = dependencies
      BY <2>1 DEF AddPath
    <3>2. F(n + 1) = F(n)
      BY <1>1, <1>2, <2>1, OneMoreMention
    <3> QED
      BY <1>5, <3>1, <3>2 DEF ListsSomeInOrder
  <2>2. CASE Canonical(source, g[i]) \notin Collected
    <3>1. dependencies' = Append(dependencies, d)
      BY <2>2 DEF AddPath
    <3>2. F(n + 1) = F(n) \union {n + 1} /\ F(n) \subseteq 1 .. n
      BY <1>1, <1>2, <2>2, OneMoreMention
    <3>3. /\ DOMAIN dependencies = 1 .. m /\ DOMAIN dependencies' = 1 .. m + 1
          /\ dependencies'[m + 1] = d
          /\ \A k \in 1 .. m : dependencies'[k] = dependencies[k]
      <4> HIDE DEF d
      <4> QED
        BY <1>1, <3>1
    <3>4. d.path = Canonical(source, g[n + 1])
          /\ \A k : Dependency(source, g[k]).path = Canonical(source, g[k])
      BY <1>1 DEF Dependency
    <3>5. \A j \in 1 .. m : dependencies[j].path # Canonical(source, g[n + 1])
      BY <1>1, <2>2, <3>3 DEF Collected
    <3>6. \A k \in F(n) : Canonical(source, g[k]) # Canonical(source, g[n + 1])
      BY <1>1, <1>2, <2>2, <3>2
    <3>7. ASSUME NEW j \in 1 .. m + 1
          PROVE  \E k \in F(n + 1) : dependencies'[j] = Dependency(source, g[k])
      <4>1. CASE j \in 1 .. m
        <5>1. PICK k \in F(n) : dependencies[j] = Dependency(source, g[k])
          BY <1>5, <3>3, <4>1 DEF ListsSomeInOrder
        <5> HIDE DEF F
        <5> QED
          BY <3>2, <3>3, <4>1, <5>1
      <4>2. CASE j = m + 1
        <5> HIDE DEF F
        <5> QED
          BY <1>1, <3>2, <3>3, <4>2
      <4> QED
        BY <1>1, <4>1, <4>2
    <3>8. ASSUME NEW j \in 1 .. m + 1, NEW l \in 1 .. m + 1, j < l,
                 NEW k \in F(n + 1), NEW h \in F(n + 1),
                 dependencies'[j] = Dependency(source, g[k]),
                 dependencies'[l] = Dependency(source, g[h])
          PROVE  k < h
      <4> HIDE DEF F
      <4>1. j \in 1 .. m /\ dependencies'[j] = dependencies[j]
        BY <1>1, <3>3, <3>8
      <4>2. k # n + 1
        BY <3>4, <3>5, <3>8, <4>1
      <4>3. k \in F(n) /\ k \in 1 .. n
        BY <3>2, <4>2
      <4>4. CASE l \in 1 .. m
        <5>1. dependencies'[l] = dependencies[l]
          BY <3>3, <4>4
        <5>2. h # n + 1
          BY <3>4, <3>5, <3>8, <4>4, <5>1
        <5>3. h \in F(n)
          BY <3>2, <5>2
        <5> QED
          BY <1>5, <3>3, <3>8, <4>1, <4>3, <4>4, <5>1, <5>3 DEF ListsSomeInOrder, F
      <4>5. CASE l = m + 1
        <5>1. Canonical(source, g[h]) = Canonical(source, g[n + 1])
          BY <3>3, <3>4, <3>8, <4>5
        <5>2. h = n + 1
          BY <3>2, <3>6, <5>1
        <5> QED
          BY <1>1, <4>3, <5>2
      <4> QED
        BY <1>1, <4>4, <4>5
    <3> QED
      BY <3>3, <3>7, <3>8 DEF ListsSomeInOrder
  <2> QED
    BY <2>1, <2>2
<1> QED
  BY <1>1, <1>4, <1>6 DEF EntriesInOrder

(* Lines left out of orderly ones leave them orderly.                      *)
LEMMA FewerOrderly ==
  ASSUME NEW v, NEW w, NEW h, NEW n, Orderly(v, n),
         \A j \in DOMAIN w : h[j] \in DOMAIN v /\ w[j] = v[h[j]],
         \A j, l \in DOMAIN w : j < l => h[j] < h[l]
  PROVE  Orderly(w, n)
  BY DEF Orderly

LEMMA Joined ==
  ASSUME NEW S, NEW s \in Seq(S), NEW t \in Seq(S)
  PROVE  /\ s \o t \in Seq(S) /\ Len(s \o t) = Len(s) + Len(t)
         /\ \A j \in 1 .. Len(s) : (s \o t)[j] = s[j]
         /\ \A j \in 1 .. Len(t) : (s \o t)[Len(s) + j] = t[j]
  OBVIOUS

LEMMA JoinedAppend ==
  ASSUME NEW S, NEW s \in Seq(S), NEW t \in Seq(S), NEW d \in S
  PROVE  s \o Append(t, d) = Append(s \o t, d)
<1> DEFINE x == s \o Append(t, d)
           y == Append(s \o t, d)
<1>1. /\ Append(t, d) \in Seq(S) /\ Len(Append(t, d)) = Len(t) + 1 /\ Len(s) \in Nat
      /\ Len(t) \in Nat /\ Append(t, d)[Len(t) + 1] = d
      /\ \A j \in 1 .. Len(t) : Append(t, d)[j] = t[j]
  OBVIOUS
<1>2. x \in Seq(S) /\ Len(x) = Len(s) + Len(t) + 1
  BY <1>1
<1>3. y \in Seq(S) /\ Len(y) = Len(s) + Len(t) + 1
  BY <1>1
<1>4. \A j \in 1 .. Len(s) + Len(t) + 1 : x[j] = y[j]
  BY <1>1
<1> HIDE DEF x, y
<1>5. \A u, v \in Seq(S) :
        Len(u) = Len(v) /\ (\A j \in 1 .. Len(u) : u[j] = v[j]) => u = v
  OBVIOUS
<1>6. x = y
  BY <1>1, <1>2, <1>3, <1>4, <1>5
<1> QED
  BY <1>6 DEF x, y

(* e and the lines up to m, without one line or with all.                  *)
LEMMA LeftOut ==
  ASSUME NEW S, NEW e \in Seq(S), NEW lines \in Seq(S),
         NEW k, Orderly(e \o lines, k),
         NEW n \in 0 .. Len(lines), NEW m \in n .. Len(lines), NEW a \in {1, 2}
  PROVE  /\ Orderly((e \o SubSeq(lines, a, n)) \o SubSeq(lines, n + 1, m), k)
         /\ Orderly(e \o SubSeq(lines, a, n), k)
         /\ a = 1 /\ m = Len(lines)
              => (e \o SubSeq(lines, a, n)) \o SubSeq(lines, n + 1, m) = e \o lines
<1> DEFINE v == e \o lines
           x == SubSeq(lines, a, n)
           y == SubSeq(lines, n + 1, m)
           u == e \o x
           w == u \o y
           c == IF a = 2 /\ n >= 1 THEN 1 ELSE 0
           h == [j \in DOMAIN w |-> IF j <= Len(e) THEN j ELSE j + c]
<1>1. /\ Len(e) \in Nat /\ Len(lines) \in Nat /\ n \in Nat /\ m \in Nat /\ n <= m
      /\ m <= Len(lines)
  OBVIOUS
<1>2. c \in {0, 1} /\ c \in Nat /\ c <= n /\ n - c \in Nat /\ m - n \in Nat /\ (a = 1 => c = 0)
  OBVIOUS
<1>3. x \in Seq(S) /\ Len(x) = n - c /\ \A j \in 1 .. n - c : x[j] = lines[j + c]
  <2>1. CASE a = 1
    BY <1>1, <2>1
  <2>2. CASE a = 2 /\ n >= 1
    BY <1>1, <2>2
  <2>3. CASE a = 2 /\ n = 0
    <3>1. x = << >>
      BY <2>3
    <3> QED
      BY <2>3, <3>1
  <2> QED
    BY <1>1, <2>1, <2>2, <2>3
<1>4. y \in Seq(S) /\ Len(y) = m - n /\ \A j \in 1 .. m - n : y[j] = lines[j + n]
  BY <1>1
<1> HIDE DEF x, y, c
<1>5. /\ v \in Seq(S) /\ Len(v) = Len(e) + Len(lines)
      /\ \A j \in 1 .. Len(e) : v[j] = e[j]
      /\ \A j \in 1 .. Len(lines) : v[Len(e) + j] = lines[j]
  BY Joined
<1>6. /\ u \in Seq(S) /\ Len(u) = Len(e) + (n - c)
      /\ \A j \in 1 .. Len(e) : u[j] = e[j]
      /\ \A j \in 1 .. n - c : u[Len(e) + j] = x[j]
  <2>2. x \in Seq(S)
    BY <1>3
  <2>1. /\ u \in Seq(S) /\ Len(u) = Len(e) + Len(x)
        /\ \A j \in 1 .. Len(e) : u[j] = e[j]
        /\ \A j \in 1 .. Len(x) : u[Len(e) + j] = x[j]
    BY <2>2, Joined
  <2> HIDE DEF u
  <2> QED
    BY <1>3, <2>1
<1> HIDE DEF v, u
<1>7. /\ w \in Seq(S) /\ Len(w) = Len(u) + (m - n)
      /\ \A j \in 1 .. Len(u) : w[j] = u[j]
      /\ \A j \in 1 .. m - n : w[Len(u) + j] = y[j]
  <2>2. u \in Seq(S) /\ y \in Seq(S)
    BY <1>4, <1>6
  <2>1. /\ w \in Seq(S) /\ Len(w) = Len(u) + Len(y)
        /\ \A j \in 1 .. Len(u) : w[j] = u[j]
        /\ \A j \in 1 .. Len(y) : w[Len(u) + j] = y[j]
    BY <2>2, Joined
  <2> HIDE DEF w
  <2> QED
    BY <1>4, <2>1
<1> HIDE DEF w
<1>15. Len(u) \in Nat /\ Len(w) \in Nat /\ Len(w) = Len(e) + (m - c)
  BY <1>1, <1>2, <1>6, <1>7
<1>10. DOMAIN w = 1 .. Len(w) /\ DOMAIN v = 1 .. Len(v) /\ DOMAIN u = 1 .. Len(u)
  BY <1>5, <1>6, <1>7
<1>16. \A j \in 1 .. Len(w) : h[j] = IF j <= Len(e) THEN j ELSE j + c
  BY <1>10
<1> HIDE DEF h
<1>8. ASSUME NEW j \in 1 .. Len(w)
      PROVE  h[j] \in 1 .. Len(v) /\ w[j] = v[h[j]]
  <2>1. j \in Nat /\ j >= 1 /\ j <= Len(w)
    BY <1>15
  <2>2. CASE j <= Len(e)
    <3>1. h[j] = j /\ j \in 1 .. Len(e) /\ j \in 1 .. Len(u) /\ j \in 1 .. Len(v)
      BY <1>1, <1>2, <1>5, <1>6, <1>16, <2>1, <2>2
    <3> QED
      BY <1>5, <1>6, <1>7, <3>1
  <2>3. CASE ~(j <= Len(e)) /\ j <= Len(u)
    <3> DEFINE q == j - Len(e)
    <3>1. h[j] = j + c /\ j \in 1 .. Len(u) /\ q \in 1 .. n - c /\ Len(e) + q = j
      BY <1>1, <1>2, <1>6, <1>16, <2>1, <2>3
    <3>2. q + c \in 1 .. Len(lines) /\ Len(e) + (q + c) = j + c
      BY <1>1, <1>2, <2>1, <3>1
    <3> HIDE DEF q
    <3>3. w[j] = x[q]
      BY <1>6, <1>7, <3>1
    <3>4. v[Len(e) + (q + c)] = lines[q + c]
      BY <1>5, <3>2
    <3>5. j + c \in 1 .. Len(v)
      BY <1>1, <1>2, <1>5, <2>1, <3>2
    <3> QED
      BY <1>3, <3>1, <3>2, <3>3, <3>4, <3>5
  <2>4. CASE ~(j <= Len(u))
    <3> DEFINE q == j - Len(u)
    <3>1. q \in 1 .. m - n /\ Len(u) + q = j
      BY <1>1, <1>2, <1>7, <1>15, <2>1, <2>4
    <3>2. h[j] = j + c
      BY <1>1, <1>2, <1>6, <1>16, <2>1, <2>4
    <3>3. q + n \in 1 .. Len(lines) /\ Len(e) + (q + n) = j + c
      BY <1>1, <1>2, <1>6, <2>1, <3>1
    <3> HIDE DEF q
    <3>4. w[j] = y[q]
      BY <1>7, <3>1
    <3>5. v[Len(e) + (q + n)] = lines[q + n]
      BY <1>5, <3>3
    <3>6. j + c \in 1 .. Len(v)
      BY <1>1, <1>2, <1>5, <2>1, <3>3
    <3> QED
      BY <1>4, <3>1, <3>2, <3>3, <3>4, <3>5, <3>6
  <2> QED
    BY <2>2, <2>3, <2>4
<1>9. \A j, l \in 1 .. Len(w) : j < l => h[j] < h[l]
  BY <1>1, <1>2, <1>15, <1>16
<1>11. Orderly(v, k)
  BY DEF v
<1>12. Orderly(w, k)
  BY <1>8, <1>9, <1>10, <1>11, FewerOrderly
<1>13. Orderly(u, k)
  <2>1. 1 .. Len(u) \subseteq 1 .. Len(w) /\ \A j \in 1 .. Len(u) : u[j] = w[j]
    BY <1>1, <1>2, <1>7, <1>15
  <2> DEFINE i1 == [j \in DOMAIN u |-> j]
  <2>2. \A j \in DOMAIN u : i1[j] \in DOMAIN w /\ u[j] = w[i1[j]]
    BY <1>10, <2>1
  <2>3. \A j, l \in DOMAIN u : j < l => i1[j] < i1[l]
    OBVIOUS
  <2> HIDE DEF i1
  <2> QED
    BY <1>12, <2>2, <2>3, FewerOrderly
<1>14. a = 1 /\ m = Len(lines) => w = v
  <2> SUFFICES ASSUME a = 1, m = Len(lines) PROVE w = v
    OBVIOUS
  <2>1. c = 0 /\ Len(w) = Len(v)
    BY <1>1, <1>2, <1>5, <1>15
  <2>2. \A j \in 1 .. Len(w) : w[j] = v[j]
    <3> SUFFICES ASSUME NEW j \in 1 .. Len(w) PROVE w[j] = v[j]
      OBVIOUS
    <3>1. h[j] = j
      BY <1>15, <1>16, <2>1
    <3> QED
      BY <1>8, <3>1
  <2>3. \A s, t \in Seq(S) :
          Len(s) = Len(t) /\ (\A j \in 1 .. Len(s) : s[j] = t[j]) => s = t
    OBVIOUS
  <2>4. v \in Seq(S) /\ w \in Seq(S)
    BY <1>5, <1>7
  <2> QED
    BY <2>1, <2>2, <2>3, <2>4
<1> QED
  BY <1>12, <1>13, <1>14 DEF u, v, w, x, y

(* One more line printed.                                                  *)
LEMMA OneMoreLine ==
  ASSUME NEW v \in Seq(SourceDependency), NEW n \in Nat, n + 1 <= Len(dependencies),
         dependencies \in Seq(SourceDependency), EntriesDistinct, Orderly(v, n)
  PROVE  Orderly(Append(v, dependencies[n + 1]), n + 1)
<1> DEFINE d == dependencies[n + 1]
           w == Append(v, d)
<1>1. d \in SourceDependency /\ Len(v) \in Nat /\ Len(dependencies) \in Nat
  OBVIOUS
<1>2. \A p, q \in 1 .. n + 1 : dependencies[p] = dependencies[q] => p = q
  BY <1>1 DEF EntriesDistinct
<1> HIDE DEF d
<1>3. /\ DOMAIN v = 1 .. Len(v) /\ DOMAIN w = 1 .. Len(v) + 1 /\ w[Len(v) + 1] = d
      /\ \A j \in 1 .. Len(v) : w[j] = v[j]
  BY <1>1
<1> HIDE DEF w
<1>4. \A j \in 1 .. Len(v) : \E p \in 1 .. n : w[j] = dependencies[p]
  BY <1>3 DEF Orderly
<1>5. \A j \in DOMAIN w : \E p \in 1 .. n + 1 : w[j] = dependencies[p]
  <2> SUFFICES ASSUME NEW j \in 1 .. Len(v) + 1
               PROVE  \E p \in 1 .. n + 1 : w[j] = dependencies[p]
    BY <1>3
  <2>1. CASE j \in 1 .. Len(v)
    <3>1. PICK p \in 1 .. n : w[j] = dependencies[p]
      BY <1>4, <2>1
    <3>2. p \in 1 .. n + 1
      OBVIOUS
    <3> QED
      BY <3>1, <3>2
  <2>2. CASE j = Len(v) + 1
    <3>1. w[j] = dependencies[n + 1] /\ n + 1 \in 1 .. n + 1
      BY <1>3, <2>2 DEF d
    <3> QED
      BY <3>1
  <2> QED
    BY <1>1, <2>1, <2>2
<1>6. ASSUME NEW j \in 1 .. Len(v) + 1, NEW l \in 1 .. Len(v) + 1, j < l,
             NEW p \in 1 .. n + 1, NEW q \in 1 .. n + 1,
             w[j] = dependencies[p], w[l] = dependencies[q]
      PROVE  p < q
  <2>1. j \in 1 .. Len(v)
    BY <1>1, <1>6
  <2>2. PICK r \in 1 .. n : w[j] = dependencies[r]
    BY <1>4, <2>1
  <2>3. r \in 1 .. n + 1
    OBVIOUS
  <2>4. p = r
    BY <1>2, <1>6, <2>2, <2>3
  <2>5. CASE l \in 1 .. Len(v)
    <3>1. PICK t \in 1 .. n : w[l] = dependencies[t]
      BY <1>4, <2>5
    <3>2. t \in 1 .. n + 1
      OBVIOUS
    <3>3. q = t
      BY <1>2, <1>6, <3>1, <3>2
    <3>4. v[j] = dependencies[p] /\ v[l] = dependencies[q]
      BY <1>3, <1>6, <2>1, <2>5
    <3>5. p \in 1 .. n /\ q \in 1 .. n
      BY <2>4, <3>3
    <3> QED
      BY <1>3, <1>6, <2>1, <2>5, <3>4, <3>5 DEF Orderly
  <2>6. CASE l = Len(v) + 1
    <3>1. dependencies[q] = dependencies[n + 1]
      BY <1>3, <1>6, <2>6 DEF d
    <3>2. n + 1 \in 1 .. n + 1
      OBVIOUS
    <3>3. q = n + 1
      BY <1>2, <3>1, <3>2
    <3> QED
      BY <2>4, <3>3
  <2> QED
    BY <1>1, <2>5, <2>6
<1>7. Orderly(w, n + 1)
  BY <1>3, <1>5, <1>6 DEF Orderly
<1> QED
  BY <1>7 DEF w, d

(* Some of what is collected, in order, is some of the first mentions, in  *)
(* order.                                                                  *)
LEMMA OrderlyLists ==
  ASSUME NEW w, NEW f, NEW ps, NEW n, dependencies \in Seq(SourceDependency),
         Orderly(w, Len(dependencies)), ListsSomeInOrder(dependencies, f, ps, n)
  PROVE  ListsSomeInOrder(w, f, ps, n)
<1> DEFINE F == FirstMentions(f, ps, n)
<1>1. DOMAIN dependencies = 1 .. Len(dependencies)
  OBVIOUS
<1>2. \A p \in 1 .. Len(dependencies) : \E k \in F : dependencies[p] = Dependency(f, ps[k])
  BY <1>1 DEF ListsSomeInOrder
<1>3. \A j \in DOMAIN w : \E p \in 1 .. Len(dependencies) : w[j] = dependencies[p]
  BY DEF Orderly
<1>4. ASSUME NEW j \in DOMAIN w, NEW l \in DOMAIN w, NEW k \in F, NEW m \in F,
             j < l, w[j] = Dependency(f, ps[k]), w[l] = Dependency(f, ps[m])
      PROVE  k < m
  <2>1. PICK p \in 1 .. Len(dependencies) : w[j] = dependencies[p]
    BY <1>3
  <2>2. PICK q \in 1 .. Len(dependencies) : w[l] = dependencies[q]
    BY <1>3
  <2>3. p < q
    BY <1>4, <2>1, <2>2 DEF Orderly
  <2> QED
    BY <1>1, <1>4, <2>1, <2>2, <2>3 DEF ListsSomeInOrder
<1>5. \A j \in DOMAIN w : \E k \in F : w[j] = Dependency(f, ps[k])
  <2> HIDE DEF F
  <2> QED
    BY <1>2, <1>3
<1> QED
  BY <1>4, <1>5 DEF ListsSomeInOrder

(* Printing keeps what is gathered.                                        *)
LEMMA PrintGathers ==
  ASSUME DepFileInv, StreamInv, PrintLine
  PROVE  StreamInv'
<1> DEFINE W == Gathered
           B == Buffered
           d == dependencies[line]
<1>1. /\ at = "open" /\ at' = "open" /\ line <= Len(dependencies) /\ line' = line + 1
      /\ dependencies' = dependencies
  BY DEF PrintLine, locals
<1>2. /\ line \in Nat /\ line >= 1 /\ Len(dependencies) \in Nat
      /\ dependencies \in Seq(SourceDependency) /\ stream \in Seq(SourceDependency)
      /\ manifest.entries \in Seq(SourceDependency)
  BY DEF DepFileInv, DepFileTypeOK
<1>3. d \in SourceDependency /\ line \in 1 .. Len(dependencies)
  BY <1>1, <1>2
<1>4. manifest.entries \o B = Append(W, d) /\ W \in Seq(SourceDependency)
  <2>2. /\ manifest.entries \in Seq(SourceDependency) /\ stream \in Seq(SourceDependency)
        /\ d \in SourceDependency
    BY <1>2, <1>3
  <2> HIDE DEF d
  <2>3. \A s, t \in Seq(SourceDependency), x \in SourceDependency :
          s \o Append(t, x) = Append(s \o t, x)
    BY JoinedAppend
  <2>1. manifest.entries \o Append(stream, d) = Append(manifest.entries \o stream, d)
    BY <2>2, <2>3
  <2> QED
    BY <1>2, <2>1 DEF Buffered, Gathered, d
<1>5. Orderly(manifest.entries \o B, line)
  <2>1. Orderly(W, line - 1) /\ line - 1 \in Nat /\ (line - 1) + 1 = line
    BY <1>1, <1>2 DEF StreamInv
  <2>2. EntriesDistinct
    BY DEF DepFileInv, OneEntryPerDependency
  <2> HIDE DEF W
  <2>3. Orderly(Append(W, dependencies[(line - 1) + 1]), (line - 1) + 1)
    BY <1>1, <1>2, <1>4, <2>1, <2>2, OneMoreLine
  <2> QED
    BY <1>4, <2>1, <2>3
<1>6. B \in Seq(SourceDependency)
  BY PrintMoves
<1>7. PICK n \in 0 .. Len(B) : \E m \in n .. Len(B), a \in {1, 2} :
        /\ manifest'.entries = manifest.entries \o SubSeq(B, a, n)
        /\ stream' = SubSeq(B, n + 1, m)
        /\ ~error' => /\ ~error
                      /\ m = Len(B)
                      /\ a = 2 => manifest.torn
                      /\ manifest'.torn => manifest.torn
  BY PrintMoves
<1>8. PICK m \in n .. Len(B) : \E a \in {1, 2} :
        /\ manifest'.entries = manifest.entries \o SubSeq(B, a, n)
        /\ stream' = SubSeq(B, n + 1, m)
        /\ ~error' => /\ ~error
                      /\ m = Len(B)
                      /\ a = 2 => manifest.torn
                      /\ manifest'.torn => manifest.torn
  BY <1>7
<1>9. PICK a \in {1, 2} :
        /\ manifest'.entries = manifest.entries \o SubSeq(B, a, n)
        /\ stream' = SubSeq(B, n + 1, m)
        /\ ~error' => /\ ~error
                      /\ m = Len(B)
                      /\ a = 2 => manifest.torn
                      /\ manifest'.torn => manifest.torn
  BY <1>8
<1> HIDE DEF B
<1>10. Gathered' = (manifest.entries \o SubSeq(B, a, n)) \o SubSeq(B, n + 1, m)
  BY <1>9 DEF Gathered
<1>11. Orderly(Gathered', line)
  BY <1>2, <1>5, <1>6, <1>10, LeftOut
<1>12. ASSUME ~error'
       PROVE  Gathered' = SubSeq(dependencies, 1, line) /\ ~manifest'.torn
  <2>1. ~error /\ m = Len(B)
    BY <1>9, <1>12
  <2>2. W = SubSeq(dependencies, 1, line - 1) /\ ~manifest.torn
    BY <1>1, <2>1 DEF StreamInv
  <2>3. ~manifest'.torn
    BY <1>9, <1>12, <2>2
  <2>4. a = 1
    BY <1>9, <1>12, <2>2
  <2>5. Gathered' = manifest.entries \o B
    BY <1>2, <1>5, <1>6, <1>10, <2>1, <2>4, LeftOut
  <2>6. Append(SubSeq(dependencies, 1, line - 1), dependencies[line])
          = SubSeq(dependencies, 1, line)
    BY <1>2, <1>3
  <2> QED
    BY <1>4, <2>2, <2>3, <2>5, <2>6
<1>13. (line - 1)' = line /\ dependencies' = dependencies
  BY <1>1, <1>2
<1>14. Orderly(Gathered, line - 1)'
  BY <1>11, <1>13 DEF Orderly
<1>15. (~error => Gathered = SubSeq(dependencies, 1, line - 1) /\ ~manifest.torn)'
  BY <1>12, <1>13
<1> QED
  BY <1>14, <1>15 DEF StreamInv

(* What is in the file after a successful return.                          *)
LEMMA CloseGathers ==
  ASSUME DepFileInv, StreamInv, Close
  PROVE  /\ Orderly(manifest'.entries, Len(dependencies))
         /\ ~error => manifest'.entries = dependencies /\ ~manifest'.torn
<1>1. /\ at = "open" /\ line = Len(dependencies) + 1
      /\ dependencies \in Seq(SourceDependency) /\ Len(dependencies) \in Nat
      /\ stream \in Seq(SourceDependency) /\ manifest.entries \in Seq(SourceDependency)
  BY DEF Close, Printed, DepFileInv, DepFileTypeOK
<1>2. PICK n \in 0 .. Len(stream), a \in {1, 2} :
        /\ a = 2 => manifest.torn
        /\ manifest'.entries = manifest.entries \o SubSeq(stream, a, n)
        /\ n = Len(stream) /\ (manifest'.torn => manifest.torn)
  BY CloseMoves
<1>3. Orderly(manifest.entries \o stream, Len(dependencies))
  <2>1. Orderly(Gathered, line - 1) /\ line - 1 = Len(dependencies)
    BY <1>1 DEF StreamInv
  <2> QED
    BY <2>1 DEF Gathered
<1>4. Len(stream) \in Nat /\ n \in n .. Len(stream)
  BY <1>1, <1>2
<1>5. Orderly(manifest'.entries, Len(dependencies))
  <2>1. Orderly(manifest.entries \o SubSeq(stream, a, n), Len(dependencies))
    <3>1. manifest.entries \in Seq(SourceDependency) /\ stream \in Seq(SourceDependency)
      BY <1>1
    <3> QED
      BY <1>3, <1>4, <3>1, LeftOut
  <2> QED
    BY <1>2, <2>1
<1>6. ASSUME ~error
      PROVE  manifest'.entries = dependencies /\ ~manifest'.torn
  <2>1. Gathered = SubSeq(dependencies, 1, line - 1) /\ ~manifest.torn
    BY <1>1, <1>6 DEF StreamInv
  <2>2. SubSeq(dependencies, 1, line - 1) = dependencies
    BY <1>1
  <2>3. a = 1 /\ SubSeq(stream, 1, Len(stream)) = stream
    BY <1>1, <1>2, <2>1
  <2>4. manifest'.entries = dependencies
    BY <1>2, <2>1, <2>2, <2>3 DEF Gathered
  <2>5. ~manifest'.torn
    BY <1>2, <2>1
  <2> QED
    BY <2>4, <2>5
<1> QED
  BY <1>5, <1>6

(* Every step keeps what is said of the file.                              *)
LEMMA ManifestInvNext == DepFileInv /\ ManifestInv /\ [Next]_vars => ManifestInv'
<1> SUFFICES ASSUME DepFileInv, ManifestInv, [Next]_vars PROVE ManifestInv'
  OBVIOUS
<1> USE DEF ManifestInv, ListIsLast, NoResultYet, ManifestNamesImports
<1>1. ASSUME NEW f \in Sources, NEW ps \in ImportLists, Assemble(f, ps) PROVE ManifestInv'
  BY <1>1 DEF Assemble, Called, locals, EntriesInOrder, StreamInv
<1>2. ASSUME NEW f \in Sources, AssembleEmpty(f) PROVE ManifestInv'
  BY <1>2 DEF AssembleEmpty, Called, locals, EntriesInOrder, StreamInv
<1>3. ASSUME NEW f \in Sources, NoDirectory(f) PROVE ManifestInv'
  BY <1>3 DEF NoDirectory, Called, locals, Return, EntriesInOrder, StreamInv
<1>4. ASSUME NEW f \in Sources, Begin(f) PROVE ManifestInv'
  <2>1. /\ UNCHANGED <<g_import_paths, last>> /\ result' = "none"
        /\ i' = 1 /\ dependencies' = << >> /\ source' = f /\ at' = "paths"
    BY <1>4 DEF Begin
  <2>2. /\ ListsInOrder(<< >>, f, g_import_paths, 0)
        /\ ListsSomeInOrder(<< >>, f, g_import_paths, 0)
    <3>1. FirstMentions(f, g_import_paths, 0) = {}
      BY DEF FirstMentions
    <3>2. ListsInOrder(<< >>, f, g_import_paths, 0)
      BY <3>1, FS_EmptySet DEF ListsInOrder
    <3>3. ListsSomeInOrder(<< >>, f, g_import_paths, 0)
      BY <3>1 DEF ListsSomeInOrder
    <3> QED
      BY <3>2, <3>3
  <2>3. EntriesInOrder'
    BY <2>1, <2>2 DEF EntriesInOrder
  <2> QED
    BY <2>1, <2>3 DEF StreamInv
<1>5. CASE AddPath
  <2>1. EntriesInOrder'
    BY <1>5, AddPathInOrder
  <2> QED
    BY <1>5, <2>1 DEF AddPath, AtPath, StreamInv
<1>6. CASE RejectPath \/ CannotOpen \/ CannotClose
  BY <1>6 DEF RejectPath, CannotOpen, CannotClose, Return, locals, EntriesInOrder, StreamInv
<1>7. CASE Open
  <2>1. /\ UNCHANGED <<g_import_paths, last, source, i, dependencies, result>>
        /\ at = "paths" /\ at' = "open" /\ result = "none"
        /\ manifest' = [state |-> "open", entries |-> << >>, torn |-> FALSE]
        /\ line' = 1 /\ stream' = << >>
    BY <1>7 DEF Open, AllPaths, Opened, locals
  <2>2. manifest'.entries = << >> /\ manifest'.torn = FALSE
    BY <2>1
  <2>3. Gathered' = << >>
    BY <2>1, <2>2 DEF Gathered
  <2>4. SubSeq(dependencies, 1, 0) = << >>
    BY DEF DepFileInv, DepFileTypeOK
  <2>5. Orderly(<< >>, 0)'
    BY DEF Orderly
  <2>6. (line - 1)' = 0
    BY <2>1
  <2>7. Orderly(Gathered, line - 1)'
    BY <2>3, <2>5, <2>6 DEF Orderly
  <2>8. Gathered' = SubSeq(dependencies', 1, (line - 1)') /\ ~manifest'.torn
    BY <2>1, <2>2, <2>3, <2>4, <2>6
  <2>9. StreamInv'
    BY <2>7, <2>8 DEF StreamInv
  <2>10. EntriesInOrder'
    BY <2>1 DEF EntriesInOrder
  <2> QED
    BY <2>1, <2>9, <2>10
<1>8. CASE PrintLine
  <2>1. StreamInv'
    BY <1>8, PrintGathers
  <2>2. UNCHANGED <<g_import_paths, last, source, i, dependencies, result, at>> /\ at = "open"
    BY <1>8 DEF PrintLine, locals
  <2>3. EntriesInOrder'
    BY <2>2 DEF EntriesInOrder
  <2> QED
    BY <2>1, <2>2, <2>3
<1>9. CASE Close
  <2>1. /\ UNCHANGED <<g_import_paths, last, source, i, dependencies, error>>
        /\ at = "open" /\ at' = "caller"
    BY <1>9 DEF Close, Printed, Return, locals
  <2>2. i - 1 = Len(g_import_paths) /\ dependencies \in Seq(SourceDependency)
    BY <2>1 DEF DepFileInv, DepFileTypeOK
  <2>3. /\ ListsInOrder(dependencies, source, g_import_paths, Len(g_import_paths))
        /\ ListsSomeInOrder(dependencies, source, g_import_paths, Len(g_import_paths))
    BY <2>1, <2>2 DEF EntriesInOrder
  <2>4. /\ Orderly(manifest'.entries, Len(dependencies))
        /\ ~error => manifest'.entries = dependencies /\ ~manifest'.torn
    BY <1>9, CloseGathers
  <2>5. ListsSomeInOrder(manifest'.entries, source, g_import_paths, Len(g_import_paths))
    BY <2>2, <2>3, <2>4, OrderlyLists
  <2>6. ManifestNamesImports'
    BY <2>1, <2>3, <2>4, <2>5
  <2> QED
    BY <2>1, <2>6 DEF EntriesInOrder, StreamInv
<1>10. CASE Idle \/ UNCHANGED vars
  BY <1>10 DEF Idle, vars, locals, file, EntriesInOrder, StreamInv, Orderly, Gathered
<1> QED
  BY <1>1, <1>2, <1>3, <1>4, <1>5, <1>6, <1>7, <1>8, <1>9, <1>10
  DEF Next, Call, WriteDependencyFile

(* For every sequence of calls and every list of imports: after a success  *)
(* the dependency file of the file assembled last names only that file's   *)
(* imports, each at most once and in the order of first mention; and all   *)
(* of them when no write to it has failed.                                 *)
THEOREM DepFileManifest == Spec => []ManifestNamesImports
<1>1. Init => ManifestInv
  BY DEF Init, ManifestInv, ListIsLast, NoResultYet, EntriesInOrder, StreamInv,
    ManifestNamesImports
<1>2. ManifestInv => ManifestNamesImports
  BY DEF ManifestInv
<1> QED
  BY <1>1, <1>2, DepFileInvInit, DepFileInvNext, ManifestInvNext, PTL DEF Spec
===========================================================================
